---- MODULE Spec2Model ----
(***************************************************************************)
(* Game-state model of thirty-challenge: the reducer (gameReducer), the    *)
(* record loader (mapRecordToState) and the GameProvider / useGame helper  *)
(* actions that dispatch, persist and broadcast deltas between clients.    *)
(*                                                                         *)
(* Representation of JavaScript values                                     *)
(*  - an object is a function over its own keys (strings); a key that is   *)
(*    missing, or that holds `undefined`, is absent from the DOMAIN;       *)
(*  - `null` is the string "null";                                         *)
(*  - NaN (the result of arithmetic on `undefined`) is the number NaN;     *)
(*  - action.payload.x is written a.x (the payload nesting is flattened).  *)
(***************************************************************************)
EXTENDS Integers, Sequences, FiniteSets, TLC

VARIABLES state, queue, last, threw, steps, prev, closure, timerRun, heap,
          cstate, cqueue, snapshot, sync, inbox, pend, lastCall, db, crashed, calls,
          session, started, arrivals,
          video, provider, lobby, room, content, frame

vars == <<state, queue, last, threw, steps, prev, closure, timerRun, heap,
          cstate, cqueue, snapshot, sync, inbox, pend, lastCall, db, crashed, calls,
          session, started, arrivals,
          video, provider, lobby, room, content, frame>>

reducerVars == <<state, queue, last, threw, steps, prev, closure, timerRun, heap>>
syncVars == <<cstate, cqueue, snapshot, sync, inbox, pend, lastCall, db, crashed, calls,
              session, started, arrivals>>
pageVars == <<room, content, frame>>
auxVars == <<video, provider, lobby, pageVars>>

(***************************************************************************)
(* Bounds of the exploration.                                              *)
(***************************************************************************)
MaxSteps == 3
MaxQueue == 2
MaxCalls == 1
MaxPresses == 2
MaxSessions == 2
MaxArrivals == 1
MaxInFlight == 2
MaxDuration == 5
MaxExtraTicks == 2

(***************************************************************************)
(* JavaScript object helpers.                                              *)
(***************************************************************************)
NaN == -1000

Has(o, k) == k \in DOMAIN o

Put(o, k, v) == [x \in DOMAIN o \cup {k} |-> IF x = k THEN v ELSE o[x]]

\* { ...a, ...b }
Spread(a, b) == [x \in DOMAIN a \cup DOMAIN b |-> IF x \in DOMAIN b THEN b[x] ELSE a[x]]

\* a + b on numbers, with NaN absorbing
JsAdd(a, b) == IF a = NaN \/ b = NaN THEN NaN ELSE a + b

\* o[k] + n where o[k] may be undefined
JsAddTo(o, k, n) == IF Has(o, k) THEN JsAdd(o[k], n) ELSE NaN

EmptyObject == [x \in {} |-> 0]

(***************************************************************************)
(* The data model (types/game, initialGameState, defaults).                *)
(***************************************************************************)
PlayerIds == {"host", "playerA", "playerB"}

ButtonKinds == {"LOCK_BUTTON", "TRAVELER_BUTTON"}

Phases == {"CONFIG", "LOBBY", "PLAYING", "COMPLETED"}

order == <<"WSHA", "AUCT", "BELL", "SING", "REMO">>

SegmentCodes == {order[i] : i \in 1..Len(order)}

defaultSettings == [s \in SegmentCodes |-> 1]

defaultPlayer(id) ==
  [id |-> id, name |-> "", score |-> 0, strikes |-> 0,
   specialButtons |-> [b \in ButtonKinds |-> TRUE], isConnected |-> FALSE]

defaultPlayers == [id \in PlayerIds |-> defaultPlayer(id)]

initialGameState ==
  [gameId |-> "", hostCode |-> "", hostName |-> "null", phase |-> "CONFIG",
   currentSegment |-> "null", currentQuestionIndex |-> 0, timer |-> 0,
   isTimerRunning |-> FALSE, players |-> defaultPlayers, scoreHistory |-> <<>>,
   segmentSettings |-> defaultSettings, videoRoomCreated |-> FALSE]

(***************************************************************************)
(* gameReducer: one operator per case of the switch.  Each returns the     *)
(* next state for a dispatch that does not throw; Throws says when the     *)
(* recipe raises a TypeError (a property read or a call on `undefined`).   *)
(***************************************************************************)
ResetStrikes(players) == [id \in DOMAIN players |-> Put(players[id], "strikes", 0)]

\* INIT that adds the payload's timer to the current one
ReduceInitAddsTimer(s, a) ==
  IF Has(s, "timer") /\ Has(a.payload, "timer")
  THEN Put(a.payload, "timer", JsAdd(s.timer, a.payload.timer))
  ELSE a.payload

ReduceInit(s, a) == a.payload

\* SET_PHASE that clears currentSegment for every phase
ReduceSetPhaseAlwaysClearsSegment(s, a) ==
  Put(Put(s, "phase", a.phase), "currentSegment", "null")

ReduceSetPhase(s, a) ==
  LET s1 == Put(s, "phase", a.phase)
  IN IF a.phase = "CONFIG" THEN Put(s1, "currentSegment", "null") ELSE s1

\* SET_CURRENT_SEGMENT that also resets the strikes, as NEXT_SEGMENT does
ReduceSetCurrentSegmentResetsStrikes(s, a) ==
  Put(Put(Put(Put(Put(s, "currentSegment", a.segment),
                  "currentQuestionIndex", 0), "timer", 0), "isTimerRunning", FALSE),
      "players", ResetStrikes(s.players))

ReduceSetCurrentSegment(s, a) ==
  Put(Put(Put(Put(s, "currentSegment", a.segment),
                  "currentQuestionIndex", 0), "timer", 0), "isTimerRunning", FALSE)

ReduceNextQuestion(s, a) ==
  Put(Put(Put(Put(s, "currentQuestionIndex", JsAddTo(s, "currentQuestionIndex", 1)),
                  "timer", 0), "isTimerRunning", FALSE),
      "players", ResetStrikes(s.players))

\* NEXT_SEGMENT without the forEach over the players
ReduceNextSegmentKeepsStrikes(s, a) ==
  Put(Put(Put(s, "currentQuestionIndex", 0), "timer", 0), "isTimerRunning", FALSE)

ReduceNextSegment(s, a) ==
  Put(Put(Put(Put(s, "currentQuestionIndex", 0),
                  "timer", 0), "isTimerRunning", FALSE),
      "players", ResetStrikes(s.players))

ReduceAddPlayer(s, a) ==
  Put(s, "players", Put(s.players, a.player.id, a.player))

ReduceUpdatePlayer(s, a) ==
  Put(s, "players", Put(s.players, a.id, Spread(s.players[a.id], a.partial)))

\* UPDATE_SCORE with `=` in place of `+=`
ReduceUpdateScoreOverwrites(s, a) ==
  LET player == s.players[a.playerId]
  IN Put(s, "players", Put(s.players, a.playerId, Put(player, "score", a.points)))

ReduceUpdateScore(s, a) ==
  LET player == s.players[a.playerId]
  IN Put(s, "players",
         Put(s.players, a.playerId, Put(player, "score", JsAddTo(player, "score", a.points))))

\* (player.strikes || 0) + 1 : undefined, 0 and NaN are falsy
ReduceAddStrike(s, a) ==
  LET player == s.players[a.playerId]
      old == IF Has(player, "strikes") /\ player.strikes # NaN THEN player.strikes ELSE 0
  IN Put(s, "players", Put(s.players, a.playerId, Put(player, "strikes", old + 1)))

ReduceUseSpecialButton(s, a) ==
  LET player == s.players[a.playerId]
  IN Put(s, "players",
         Put(s.players, a.playerId,
             Put(player, "specialButtons", Put(player.specialButtons, a.buttonType, FALSE))))

ReduceStartTimer(s, a) == Put(Put(s, "timer", a.duration), "isTimerRunning", TRUE)

ReduceStopTimer(s, a) == Put(Put(s, "timer", 0), "isTimerRunning", FALSE)

\* TICK_TIMER without the `timer > 0` test
ReduceTickTimerBelowZero(s, a) == Put(s, "timer", JsAddTo(s, "timer", -1))

ReduceTickTimer(s, a) ==
  IF Has(s, "timer") /\ s.timer # NaN /\ s.timer > 0 THEN Put(s, "timer", s.timer - 1) ELSE s

\* RESET_GAME that carries the score history over
ReduceResetGameKeepsHistory(s, a) ==
  IF Has(s, "scoreHistory") THEN Put(initialGameState, "scoreHistory", s.scoreHistory)
  ELSE initialGameState

ReduceResetGame(s, a) == initialGameState

ReduceUpdateTimer(s, a) == Put(Put(s, "timer", a.timer), "isTimerRunning", a.isRunning)

ReducePushScoreEvent(s, a) == Put(s, "scoreHistory", Append(s.scoreHistory, a.event))

ReduceResetStrikes(s, a) == Put(s, "players", ResetStrikes(s.players))

\* COMPLETE_GAME that also clears the timer, as STOP_TIMER does
ReduceCompleteGameClearsTimer(s, a) ==
  Put(Put(Put(s, "phase", "COMPLETED"), "timer", 0), "isTimerRunning", FALSE)

ReduceCompleteGame(s, a) == Put(Put(s, "phase", "COMPLETED"), "isTimerRunning", FALSE)

\* the action types dispatched by useGame() for which the switch has no case
UnhandledTypes ==
  {"START_GAME", "JOIN_GAME", "UPDATE_HOST_NAME", "UPDATE_SEGMENT_SETTINGS",
   "ADVANCE_QUESTION"}

NoPlayers(s) == ~Has(s, "players")

NoPlayer(s, id) == NoPlayers(s) \/ ~Has(s.players, id)

Throws(s, a) ==
  CASE a.type \in {"NEXT_QUESTION", "NEXT_SEGMENT", "RESET_STRIKES", "ADD_PLAYER"}
         -> NoPlayers(s)
    [] a.type = "UPDATE_PLAYER" -> NoPlayer(s, a.id)
    [] a.type \in {"UPDATE_SCORE", "ADD_STRIKE"} -> NoPlayer(s, a.playerId)
    [] a.type = "USE_SPECIAL_BUTTON"
         -> NoPlayer(s, a.playerId) \/ ~Has(s.players[a.playerId], "specialButtons")
    [] a.type = "PUSH_SCORE_EVENT" -> ~Has(s, "scoreHistory")
    [] OTHER -> FALSE

Recipe(s, a) ==
  CASE a.type = "INIT" -> ReduceInit(s, a)
    [] a.type = "SET_PHASE" -> ReduceSetPhase(s, a)
    [] a.type = "SET_CURRENT_SEGMENT" -> ReduceSetCurrentSegment(s, a)
    [] a.type = "NEXT_QUESTION" -> ReduceNextQuestion(s, a)
    [] a.type = "NEXT_SEGMENT" -> ReduceNextSegment(s, a)
    [] a.type = "ADD_PLAYER" -> ReduceAddPlayer(s, a)
    [] a.type = "UPDATE_PLAYER" -> ReduceUpdatePlayer(s, a)
    [] a.type = "UPDATE_SCORE" -> ReduceUpdateScore(s, a)
    [] a.type = "ADD_STRIKE" -> ReduceAddStrike(s, a)
    [] a.type = "USE_SPECIAL_BUTTON" -> ReduceUseSpecialButton(s, a)
    [] a.type = "START_TIMER" -> ReduceStartTimer(s, a)
    [] a.type = "STOP_TIMER" -> ReduceStopTimer(s, a)
    [] a.type = "TICK_TIMER" -> ReduceTickTimer(s, a)
    [] a.type = "RESET_GAME" -> ReduceResetGame(s, a)
    [] a.type = "UPDATE_TIMER" -> ReduceUpdateTimer(s, a)
    [] a.type = "PUSH_SCORE_EVENT" -> ReducePushScoreEvent(s, a)
    [] a.type = "RESET_STRIKES" -> ReduceResetStrikes(s, a)
    [] a.type = "COMPLETE_GAME" -> ReduceCompleteGame(s, a)
    [] OTHER -> s

\* produce(state, recipe): the recipe's result, or the exception it raised,
\* in which case no state is produced
gameReducer(s, a) == IF Throws(s, a) THEN s ELSE Recipe(s, a)

(***************************************************************************)
(* mapRecordToState: a GameRecord is an object over the record's columns;  *)
(* a column the record lacks reads as `undefined`.                         *)
(***************************************************************************)
Drop(o, k) == [x \in DOMAIN o \ {k} |-> o[x]]

\* { ...o, k: r[rk] } : an `undefined` value overrides the spread default
Column(o, k, r, rk) == IF Has(r, rk) THEN Put(o, k, r[rk]) ELSE Drop(o, k)

\* r[rk] ?? null
OrNull(r, rk) == IF Has(r, rk) THEN r[rk] ELSE "null"

\* mapRecordToState that takes `players` from the record when it has one
mapRecordToStateKeepsRecordPlayers(record) ==
  LET s0 == Put(Put(initialGameState, "gameId", record.id), "hostCode", record.host_code)
  IN Put(s0, "players", IF Has(record, "players") THEN record.players ELSE defaultPlayers)

mapRecordToState(record) ==
  LET s0 == initialGameState
      s1 == Column(s0, "gameId", record, "id")
      s2 == Column(s1, "hostCode", record, "host_code")
      s3 == Put(s2, "hostName", OrNull(record, "host_name"))
      s4 == Column(s3, "phase", record, "phase")
      s5 == Column(s4, "currentSegment", record, "current_segment")
      s6 == Column(s5, "currentQuestionIndex", record, "current_question_index")
      s7 == IF Has(record, "video_room_url") /\ record.video_room_url # "null"
            THEN Put(s6, "videoRoomUrl", record.video_room_url)
            ELSE Drop(s6, "videoRoomUrl")
      s8 == Column(s7, "videoRoomCreated", record, "video_room_created")
      s9 == Column(s8, "timer", record, "timer")
      s10 == Column(s9, "isTimerRunning", record, "is_timer_running")
      s11 == Column(s10, "segmentSettings", record, "segment_settings")
  IN Put(s11, "players", defaultPlayers)

\* GameDatabase.createGame(gameId, hostCode, hostName, segmentSettings)
createGame(gameId, hostCode, hostName, segmentSettings) ==
  [id |-> gameId, host_code |-> hostCode, host_name |-> hostName, phase |-> "CONFIG",
   current_segment |-> "null", current_question_index |-> 0,
   video_room_created |-> FALSE, timer |-> 0, is_timer_running |-> FALSE,
   segment_settings |-> segmentSettings]

(***************************************************************************)
(* Inputs of the exploration.                                              *)
(***************************************************************************)
GameIds == {"g1"}

HostNames == {"null", "Sam"}

\* rows as created, and a row read back mid-game
Records ==
  {createGame(g, "H1", h, defaultSettings) : g \in GameIds, h \in HostNames}
  \cup {[createGame("g1", "H1", "Sam", defaultSettings)
            EXCEPT !.phase = "PLAYING", !.current_segment = "WSHA", !.timer = 1,
                   !.is_timer_running = TRUE]}

\* a row that lacks columns
SparseRecords == {[id |-> "g1", host_code |-> "H1"]}

\* complete GameState payloads, as startSession dispatches them
InitPayloads == {mapRecordToState(r) : r \in Records}

\* partial INIT payloads, as in INIT({timer: 12})
PartialPayloads == {[timer |-> 1], [phase |-> "LOBBY", hostName |-> "Sam"]}

\* an id outside the fixed key set
GhostId == "ghost"

TargetIds == {"playerA", "playerB"}

Points == {-1, 2}

Durations == {-1, 1}

TimerValues == {2}

SegmentInputs == {"null", "WSHA", "REMO"}

joinedPlayer(id) ==
  [id |-> id, name |-> "Ann", score |-> 0, strikes |-> 0,
   specialButtons |-> [b \in ButtonKinds |-> TRUE], isConnected |-> TRUE]

Partials == {[isConnected |-> TRUE], [strikes |-> 3]}

ScoreEvents == {[playerId |-> "playerA", points |-> 2, timestamp |-> 1]}

(***************************************************************************)
(* Spec: one store driven by dispatch of well-typed actions (a complete    *)
(* GameState as INIT payload, player ids of the fixed set).  SpecOpen adds *)
(* the actions the types forbid and nothing at run time prevents: partial  *)
(* INIT payloads, states loaded from rows that lack columns, and player    *)
(* ids outside the fixed set.  dispatch(a) only queues a: `queue` holds    *)
(* the actions dispatched since the last render, and the next render runs  *)
(* the reducer over them in order and then the provider's effect.  `state` *)
(* is the state of the last render, `last` the action reduced last,        *)
(* `threw` whether the reducer raised on it (the render then fails, and    *)
(* the store takes no further action).  `prev` is the state and the action *)
(* as they were before `last` was reduced, `steps` the number of           *)
(* dispatches, and `closure` the state the provider's effect closed over   *)
(* when it last created a channel (empty while there is none).  `timerRun` *)
(* counts the TICK_TIMER actions that followed the last START_TIMER(n)     *)
(* with no other action in between.  `heap` follows the objects behind the *)
(* values where a specification asks for it (SpecHeap; elsewhere it is      *)
(* empty and the reducer is the function gameReducer): the content of the   *)
(* module's initialGameState object (canonical), the parts of `state` that  *)
(* are that object or one of its nested objects (aliased), the time of the  *)
(* environment (now), which passes from one render to the next, and a       *)
(* second run of the reducer (twin): another instance of the module, given  *)
(* an equal first state and the same actions, each reduced at a later time. *)
(***************************************************************************)
NoAction == [type |-> "none"]

\* the fields of initialGameState that hold an object or an array
ObjectKeys == {"players", "scoreHistory", "segmentSettings"}

\* useReducer(gameReducer, initialGameState): the first state is the module's
\* object itself
HeapStart ==
  [canonical |-> initialGameState, aliased |-> {"root"} \cup ObjectKeys, now |-> 0,
   twin |-> [state |-> initialGameState, canonical |-> initialGameState,
             aliased |-> {"root"} \cup ObjectKeys]]

\* the top-level fields the recipe of action a wrote in the draft of s, d being
\* the result: the draft takes an assignment for a write unless the value is
\* the one in place (Object.is), so a number, string or boolean counts when it
\* differs, and the player object of ADD_PLAYER, a new object at each
\* dispatch, counts always
Changed(s, a, d) ==
  {k \in DOMAIN s \cup DOMAIN d : ~(k \in DOMAIN s /\ k \in DOMAIN d /\ s[k] = d[k])}
    \cup (IF a.type = "ADD_PLAYER" THEN {"players"} ELSE {})

\* the parts of an INIT payload that are objects of initialGameState.  The
\* payloads dispatched are built by mapRecordToState, which takes scoreHistory
\* from { ...initialGameState } and players from defaultPlayers and gives
\* segmentSettings the object of the row, or are literals of their own
PayloadAliases(p) == {"players", "scoreHistory"} \cap DOMAIN p

\* a reducer that reads the clock: PUSH_SCORE_EVENT stamps the event with the
\* time of the run
gameReducerInStampsClock(h, s, a) ==
  IF a.type = "RESET_GAME" THEN h.canonical
  ELSE IF a.type = "PUSH_SCORE_EVENT" /\ ~Throws(s, a)
       THEN gameReducer(s, [a EXCEPT !.event = Put(@, "timestamp", h.now)])
  ELSE gameReducer(s, a)

\* the reducer as it runs in an environment h (the module's object and the
\* time): RESET_GAME returns { ...initialGameState }, a shallow copy of the
\* module's object as it is at that time; no case reads the time
gameReducerIn(h, s, a) ==
  IF a.type = "RESET_GAME" THEN h.canonical ELSE gameReducer(s, a)

\* a reducer that applies the recipe to its argument instead of a draft: what
\* it writes to an object of initialGameState is written to the canonical state
ProduceInPlace(h, s, a) ==
  LET d == gameReducerIn(h, s, a)
      written == {k \in Changed(s, a, d) : "root" \in h.aliased \/ k \in h.aliased}
  IN IF Throws(s, a) THEN h
     ELSE IF a.type = "RESET_GAME" THEN [h EXCEPT !.aliased = ObjectKeys]
     ELSE IF a.type = "INIT" THEN [h EXCEPT !.aliased = PayloadAliases(d)]
     ELSE [h EXCEPT !.canonical =
                      [k \in DOMAIN @ \cup (written \cap DOMAIN d) |->
                         IF k \in written /\ k \in DOMAIN d THEN d[k] ELSE @[k]]]

\* produce(state, recipe) of immer: the recipe writes to a draft, which copies
\* an object before the first write to it, so that the base state and what it
\* shares with initialGameState are never written.  A value the recipe
\* returns is the result as it is: the new object { ...initialGameState } of
\* RESET_GAME, which holds the nested objects of the module's, and the
\* payload of INIT.  Otherwise the result is the base itself when nothing was
\* written, and else a new root with new objects along the written paths
Produce(h, s, a) ==
  LET d == gameReducerIn(h, s, a)
  IN IF Throws(s, a) THEN h
     ELSE IF a.type = "RESET_GAME" THEN [h EXCEPT !.aliased = ObjectKeys]
     ELSE IF a.type = "INIT" THEN [h EXCEPT !.aliased = PayloadAliases(d)]
     ELSE IF Changed(s, a, d) = {} THEN h
     ELSE [h EXCEPT !.aliased = (@ \ {"root"}) \ Changed(s, a, d)]

\* the environment of the second run: its own module instance, a later time
TwinEnv(h) ==
  [canonical |-> h.twin.canonical, aliased |-> h.twin.aliased, now |-> h.now + 1]

\* one call of the reducer in each of the two runs
HeapAfter(h, s, a) ==
  LET t == Produce(TwinEnv(h), h.twin.state, a)
  IN [Produce(h, s, a) EXCEPT
        !.twin = [state |-> gameReducerIn(TwinEnv(h), h.twin.state, a),
                  canonical |-> t.canonical,
                  aliased |-> t.aliased]]

\* a render that failed commits nothing: the states and what they share with
\* the module's object stay as they were
HeapKept(h, r) ==
  [r EXCEPT !.aliased = h.aliased,
            !.twin.state = h.twin.state,
            !.twin.aliased = h.twin.aliased]

NoRun == [on |-> FALSE, n |-> 0, k |-> 0]

TimerRunAfter(run, a) ==
  IF a.type = "START_TIMER" THEN [on |-> TRUE, n |-> a.duration, k |-> 0]
  ELSE IF a.type = "TICK_TIMER" /\ run.on THEN [run EXCEPT !.k = @ + 1]
  ELSE NoRun

\* state.gameId, the effect's dependency ("undefined" when the key is missing)
GameIdOf(s) == IF Has(s, "gameId") THEN s.gameId ELSE "undefined"

Truthy(id) == id # "" /\ id # "undefined" /\ id # "null"

\* the effect of GameProvider after a render that took the store from old to
\* new: it runs again only when state.gameId changed, and then closes over the
\* new state when the new gameId is truthy
EffectCapture(cap, old, new) ==
  IF GameIdOf(old) = GameIdOf(new) THEN cap
  ELSE IF Truthy(GameIdOf(new)) THEN new ELSE EmptyObject

\* the store accepts dispatches until a render has failed
CanDispatch == ~threw /\ steps < MaxSteps /\ Len(queue) < MaxQueue

\* dispatch(a): the action is queued for the next render
Dispatch(a) ==
  /\ queue' = Append(queue, a)
  /\ steps' = steps + 1
  /\ UNCHANGED <<state, last, threw, prev, closure, timerRun, heap>>
  /\ UNCHANGED <<syncVars, auxVars>>

RECURSIVE Reduced(_, _, _)
\* useReducer in a render: the reducer over the queued actions acts[i..], up
\* to the first one it raises on; st is [state, last, threw, prev, timerRun,
\* heap]
Reduced(st, acts, i) ==
  IF i > Len(acts) \/ st.threw THEN st
  ELSE LET next == [state |-> IF st.heap = <<>> THEN gameReducer(st.state, acts[i])
                              ELSE gameReducerIn(st.heap, st.state, acts[i]),
                    threw |-> Throws(st.state, acts[i]),
                    last |-> acts[i],
                    prev |-> [state |-> st.state, last |-> st.last],
                    timerRun |-> IF Throws(st.state, acts[i]) THEN NoRun
                                 ELSE TimerRunAfter(st.timerRun, acts[i]),
                    heap |-> IF st.heap = <<>> THEN st.heap
                             ELSE HeapAfter(st.heap, st.state, acts[i])]
       IN CHOOSE r \in {Reduced(n, acts, i + 1) : n \in {next}} : TRUE

\* the render that follows one or more dispatches, and the effect after it.
\* When the reducer raises, the render fails: nothing is committed, and React
\* unmounts the provider, whose effect cleanup disconnects the channel
Render ==
  /\ queue # <<>>
  /\ \E r \in {Reduced([state |-> state, last |-> last, threw |-> threw, prev |-> prev,
                         timerRun |-> timerRun, heap |-> heap], queue, 1)} :
        /\ state' = IF r.threw THEN state ELSE r.state
        /\ last' = r.last
        /\ threw' = r.threw
        /\ prev' = r.prev
        /\ timerRun' = r.timerRun
        /\ closure' = IF r.threw THEN EmptyObject
                      ELSE EffectCapture(closure, state, r.state)
        /\ heap' = IF heap = <<>> THEN heap
                   ELSE [(IF r.threw THEN HeapKept(heap, r.heap) ELSE r.heap)
                           EXCEPT !.now = @ + 1]
  /\ queue' = <<>>
  /\ UNCHANGED steps
  /\ UNCHANGED <<syncVars, auxVars>>

DoInit ==
  /\ CanDispatch
  /\ \E p \in InitPayloads :
       Dispatch([type |-> "INIT", payload |-> p])

DoSetPhase ==
  /\ CanDispatch
  /\ \E ph \in Phases :
       Dispatch([type |-> "SET_PHASE", phase |-> ph])

DoSetCurrentSegment ==
  /\ CanDispatch
  /\ \E sg \in SegmentInputs :
       Dispatch([type |-> "SET_CURRENT_SEGMENT", segment |-> sg])

DoNextQuestion ==
  /\ CanDispatch
  /\ Dispatch([type |-> "NEXT_QUESTION"])

DoNextSegment ==
  /\ CanDispatch
  /\ Dispatch([type |-> "NEXT_SEGMENT"])

DoAddPlayer ==
  /\ CanDispatch
  /\ \E id \in TargetIds :
       Dispatch([type |-> "ADD_PLAYER", player |-> joinedPlayer(id)])

DoUpdatePlayer ==
  /\ CanDispatch
  /\ \E id \in TargetIds, pt \in Partials :
       Dispatch([type |-> "UPDATE_PLAYER", id |-> id, partial |-> pt])

DoUpdateScore ==
  /\ CanDispatch
  /\ \E id \in TargetIds, n \in Points :
       Dispatch([type |-> "UPDATE_SCORE", playerId |-> id, points |-> n])

DoAddStrike ==
  /\ CanDispatch
  /\ \E id \in TargetIds :
       Dispatch([type |-> "ADD_STRIKE", playerId |-> id])

DoUseSpecialButton ==
  /\ CanDispatch
  /\ \E id \in TargetIds, b \in ButtonKinds :
       Dispatch([type |-> "USE_SPECIAL_BUTTON", playerId |-> id, buttonType |-> b])

DoStartTimer ==
  /\ CanDispatch
  /\ \E d \in Durations :
       Dispatch([type |-> "START_TIMER", duration |-> d])

DoStopTimer ==
  /\ CanDispatch
  /\ Dispatch([type |-> "STOP_TIMER"])

DoTickTimer ==
  /\ CanDispatch
  /\ Dispatch([type |-> "TICK_TIMER"])

DoResetGame ==
  /\ CanDispatch
  /\ Dispatch([type |-> "RESET_GAME"])

DoUpdateTimer ==
  /\ CanDispatch
  /\ \E d \in TimerValues, r \in BOOLEAN :
       Dispatch([type |-> "UPDATE_TIMER", timer |-> d, isRunning |-> r])

DoPushScoreEvent ==
  /\ CanDispatch
  /\ \E e \in ScoreEvents :
       Dispatch([type |-> "PUSH_SCORE_EVENT", event |-> e])

DoResetStrikes ==
  /\ CanDispatch
  /\ Dispatch([type |-> "RESET_STRIKES"])

DoCompleteGame ==
  /\ CanDispatch
  /\ Dispatch([type |-> "COMPLETE_GAME"])

\* useGame().advanceQuestion and the helpers whose action the switch ignores
DoUnhandled ==
  /\ CanDispatch
  /\ \E ty \in UnhandledTypes :
       Dispatch([type |-> ty])

ReducerStart ==
  /\ state = initialGameState
  /\ queue = <<>>
  /\ last = NoAction
  /\ threw = FALSE
  /\ steps = 0
  /\ prev = [state |-> initialGameState, last |-> NoAction]
  /\ closure = EmptyObject
  /\ timerRun = NoRun

\* the objects behind the values are not followed
ReducerInit == ReducerStart /\ heap = <<>>

SyncIdle ==
  /\ cstate = <<>>
  /\ cqueue = <<>>
  /\ session = <<>>
  /\ started = 0
  /\ arrivals = 0
  /\ snapshot = <<>>
  /\ sync = <<>>
  /\ inbox = <<>>
  /\ pend = <<>>
  /\ lastCall = <<>>
  /\ db = <<>>
  /\ crashed = <<>>
  /\ calls = 0

\* the room creation of the lobby, the VideoContent component and the video
\* frame are not part of this specification
PagesIdle ==
  /\ room = <<>>
  /\ content = <<>>
  /\ frame = <<>>

\* the video-room helpers, the provider's channel bookkeeping and the lobby
\* page are not part of this specification
AuxIdle ==
  /\ video = <<>>
  /\ provider = <<>>
  /\ lobby = <<>>
  /\ PagesIdle

Init == ReducerInit /\ SyncIdle /\ AuxIdle

Next ==
  \/ DoInit
  \/ DoSetPhase
  \/ DoSetCurrentSegment
  \/ DoNextQuestion
  \/ DoNextSegment
  \/ DoAddPlayer
  \/ DoUpdatePlayer
  \/ DoUpdateScore
  \/ DoAddStrike
  \/ DoUseSpecialButton
  \/ DoStartTimer
  \/ DoStopTimer
  \/ DoTickTimer
  \/ DoResetGame
  \/ DoUpdateTimer
  \/ DoPushScoreEvent
  \/ DoResetStrikes
  \/ DoCompleteGame
  \/ DoUnhandled
  \/ Render

Spec == Init /\ [][Next]_vars

\* INIT with a partial payload
DoInitPartial ==
  /\ CanDispatch
  /\ \E p \in PartialPayloads :
       Dispatch([type |-> "INIT", payload |-> p])

\* INIT with the state mapped from a row that lacks columns
DoInitSparse ==
  /\ CanDispatch
  /\ \E r \in SparseRecords :
       Dispatch([type |-> "INIT", payload |-> mapRecordToState(r)])

GhostActions ==
  {[type |-> "ADD_PLAYER", player |-> joinedPlayer(GhostId)],
   [type |-> "UPDATE_PLAYER", id |-> GhostId, partial |-> [isConnected |-> TRUE]],
   [type |-> "UPDATE_SCORE", playerId |-> GhostId, points |-> 2],
   [type |-> "ADD_STRIKE", playerId |-> GhostId],
   [type |-> "USE_SPECIAL_BUTTON", playerId |-> GhostId, buttonType |-> "LOCK_BUTTON"]}

\* a player-addressed action naming an id outside the fixed set
DoGhost ==
  /\ CanDispatch
  /\ \E a \in GhostActions :
       Dispatch(a)

NextOpen == Next \/ DoInitPartial \/ DoInitSparse \/ DoGhost

SpecOpen == Init /\ [][NextOpen]_vars

\* the store with the objects behind its values followed
InitHeap == ReducerStart /\ heap = HeapStart /\ SyncIdle /\ AuxIdle

SpecHeap == InitHeap /\ [][NextOpen]_vars

(***************************************************************************)
(* SpecLoad: states loaded from rows (startSession's INIT of                *)
(* mapRecordToState(record)), with actions on the players in between.  The  *)
(* dispatched action carries the row it was mapped from in `record`.        *)
(***************************************************************************)
\* a row with a value in every column
fullRecord ==
  [id |-> "g1", host_code |-> "H1", host_name |-> "Sam", phase |-> "PLAYING",
   current_segment |-> "WSHA", current_question_index |-> 2,
   video_room_url |-> "https://room", video_room_created |-> TRUE, timer |-> 1,
   is_timer_running |-> TRUE, segment_settings |-> [s \in SegmentCodes |-> 2]]

\* the GameState field fed by each column that a row may lack
ColumnOf ==
  [phase |-> "phase", currentSegment |-> "current_segment",
   currentQuestionIndex |-> "current_question_index", timer |-> "timer",
   isTimerRunning |-> "is_timer_running", segmentSettings |-> "segment_settings",
   videoRoomCreated |-> "video_room_created", hostName |-> "host_name",
   videoRoomUrl |-> "video_room_url"]

OptionalColumns == {ColumnOf[f] : f \in DOMAIN ColumnOf}

\* the full row, the row without each one column, rows as created, a row with
\* only its keys, and a row that carries a players column
LoadRecords ==
  {fullRecord}
  \cup {Drop(fullRecord, c) : c \in OptionalColumns}
  \cup Records
  \cup SparseRecords
  \cup {Put(fullRecord, "players", [playerA |-> joinedPlayer("playerA")])}

Loaded(r) == [type |-> "INIT", payload |-> mapRecordToState(r), record |-> r]

DoLoad ==
  /\ CanDispatch
  /\ \E r \in LoadRecords :
       Dispatch(Loaded(r))

NextLoad ==
  \/ DoLoad
  \/ DoAddPlayer
  \/ DoUpdateScore
  \/ DoAddStrike
  \/ DoUseSpecialButton
  \/ DoGhost
  \/ Render

SpecLoad == Init /\ [][NextLoad]_vars

(***************************************************************************)
(* SpecVideo: the Daily.co helpers of useGame.  Each call is an async       *)
(* function that runs up to its next await: callFn (fetch, then res.json()) *)
(* and, for the two room helpers, GameDatabase.updateGame.  A call of a     *)
(* serverless function ends in one of: fetch rejects (kind "network"),      *)
(* res.json() rejects (kind "unparsable"), or a parsed body (kind "json").  *)
(* `video.row` holds the video columns of the game's row, `video.calls` the *)
(* helper calls that have not settled yet (several may be outstanding, and  *)
(* they settle in any order), `video.done` the call that settled last with  *)
(* how its promise settled, and `video.n` the number of calls made.         *)
(***************************************************************************)
MaxVideoOps == 3

RoomUrl == "https://room"

FetchFailures == {[kind |-> "network"], [kind |-> "unparsable"]}

Json(body) == [kind |-> "json", body |-> body]

CreateResponses ==
  FetchFailures \cup {Json([url |-> RoomUrl]), Json([error |-> "quota"]),
                      Json([url |-> ""]), Json([message |-> "?"])}

DeleteResponses ==
  FetchFailures \cup {Json([deleted |-> TRUE]), Json([error |-> "not-found"])}

TokenResponses ==
  FetchFailures \cup {Json([token |-> "tok"]), Json([error |-> "denied"]),
                      Json([token |-> ""]), Json([message |-> "?"])}

ResponsesOf(op) ==
  CASE op = "createVideoRoom" -> CreateResponses
    [] op = "endVideoRoom" -> DeleteResponses
    [] OTHER -> TokenResponses

\* the sequence without its element i
RemoveAt(seq, i) == [j \in 1..(Len(seq) - 1) |-> IF j < i THEN seq[j] ELSE seq[j + 1]]

\* a || b on an optional string field
FieldOr(o, k, b) == IF Has(o, k) /\ o[k] # "" THEN o[k] ELSE b

\* how a helper goes on from an await: its promise settles, or it calls
\* GameDatabase.updateGame with a patch and awaits that
Rejected == [then |-> "settle", settled |-> "rejected"]

Resolved(value) == [then |-> "settle", settled |-> "resolved", value |-> value]

AwaitUpdate(patch) == [then |-> "update", patch |-> patch]

callFn(resp) ==
  IF resp.kind = "json"
  THEN [settled |-> "resolved", value |-> resp.body]
  ELSE [settled |-> "rejected"]

\* createVideoRoom once callFn has settled with resp
createVideoRoom(resp) ==
  LET result == callFn(resp)
  IN IF result.settled = "rejected" THEN Rejected
     ELSE IF FieldOr(result.value, "url", "") # ""
          THEN AwaitUpdate([video_room_url |-> result.value.url,
                            video_room_created |-> TRUE])
          ELSE Resolved([success |-> FALSE,
                         error |-> FieldOr(result.value, "error", "create failed")])

\* createVideoRoom once its updateGame has settled: return { success: true, roomUrl }
createVideoRoomReturns(resp, ok) ==
  IF ok THEN Resolved([success |-> TRUE, roomUrl |-> resp.body.url]) ELSE Rejected

\* endVideoRoom once callFn has settled with resp (the result is not looked at)
endVideoRoom(resp) ==
  LET result == callFn(resp)
  IN IF result.settled = "rejected" THEN Rejected
     ELSE AwaitUpdate([video_room_created |-> FALSE, video_room_url |-> "null"])

\* endVideoRoom once its updateGame has settled: return { success: true }
endVideoRoomReturns(ok) ==
  IF ok THEN Resolved([success |-> TRUE]) ELSE Rejected

\* generateDailyToken without its catch block
generateDailyTokenWithoutCatch(resp) ==
  IF resp.kind # "json" \/ FieldOr(resp.body, "token", "") = ""
  THEN Rejected
  ELSE Resolved(resp.body.token)

\* generateDailyToken once its fetch and res.json() have settled with resp
generateDailyToken(resp) ==
  IF resp.kind # "json" \/ FieldOr(resp.body, "token", "") = ""
  THEN Resolved("null")
  ELSE Resolved(resp.body.token)

VideoStart ==
  [row |-> [video_room_url |-> "null", video_room_created |-> FALSE],
   calls |-> <<>>, done |-> [op |-> "none"], n |-> 0]

\* a helper is called: it starts its fetch and awaits it
VideoCall(op) ==
  /\ video.n < MaxVideoOps
  /\ video' = [video EXCEPT !.calls = Append(@, [op |-> op, stage |-> "fetch",
                                                 wrote |-> FALSE]),
                            !.n = @ + 1]
  /\ UNCHANGED <<reducerVars, syncVars, provider, lobby, pageVars>>

CreateVideoRoom == VideoCall("createVideoRoom")

EndVideoRoom == VideoCall("endVideoRoom")

GenerateDailyToken == VideoCall("generateDailyToken")

\* the call at position i of video.calls goes on as `next` says
VideoGoesOn(i, call, next) ==
  IF next.then = "settle"
  THEN [video EXCEPT !.calls = RemoveAt(@, i),
                     !.done = [op |-> call.op, resp |-> call.resp, wrote |-> call.wrote,
                               out |-> next, row |-> video.row]]
  ELSE [video EXCEPT !.calls[i] = [call EXCEPT !.stage = "update",
                                               !.patch = next.patch]]

\* the fetch and res.json() of an outstanding call settle, and the helper
\* runs on to its return or to its updateGame call
CallFnSettles ==
  /\ \E i \in 1..Len(video.calls) :
       /\ video.calls[i].stage = "fetch"
       /\ \E resp \in ResponsesOf(video.calls[i].op) :
            LET call == [op |-> video.calls[i].op, stage |-> "fetch", wrote |-> FALSE,
                         resp |-> resp, patch |-> EmptyObject]
                next == CASE call.op = "createVideoRoom" -> createVideoRoom(resp)
                          [] call.op = "endVideoRoom" -> endVideoRoom(resp)
                          [] OTHER -> generateDailyToken(resp)
            IN video' = VideoGoesOn(i, call, next)
  /\ UNCHANGED <<reducerVars, syncVars, provider, lobby, pageVars>>

\* GameDatabase.updateGame(gameId, patch) of an outstanding call is carried
\* out: the patch reaches the row, or the update fails
UpdateGameDone ==
  /\ \E i \in 1..Len(video.calls) :
       /\ video.calls[i].stage = "update"
       /\ \E ok \in BOOLEAN :
            video' = [video EXCEPT
                        !.row = IF ok THEN Spread(@, video.calls[i].patch) ELSE @,
                        !.calls[i].stage = "answered",
                        !.calls[i].wrote = ok]
  /\ UNCHANGED <<reducerVars, syncVars, provider, lobby, pageVars>>

\* the awaited updateGame settles in the helper, which returns or rejects
UpdateGameSettles ==
  /\ \E i \in 1..Len(video.calls) :
       /\ video.calls[i].stage = "answered"
       /\ LET call == video.calls[i]
              next == IF call.op = "createVideoRoom"
                      THEN createVideoRoomReturns(call.resp, call.wrote)
                      ELSE endVideoRoomReturns(call.wrote)
          IN video' = VideoGoesOn(i, call, next)
  /\ UNCHANGED <<reducerVars, syncVars, provider, lobby, pageVars>>

InitVideo ==
  /\ ReducerInit
  /\ SyncIdle
  /\ PagesIdle
  /\ video = VideoStart
  /\ provider = <<>>
  /\ lobby = <<>>

NextVideo ==
  \/ CreateVideoRoom
  \/ EndVideoRoom
  \/ GenerateDailyToken
  \/ CallFnSettles
  \/ UpdateGameDone
  \/ UpdateGameSettles

SpecVideo == InitVideo /\ [][NextVideo]_vars

(***************************************************************************)
(* SpecProvider: the effect of GameProvider that owns the GameSync          *)
(* instance.  `provider.runs` lists the effect runs with a truthy gameId:   *)
(* each has the subscription made by attachGameSync (`attached`) and the    *)
(* instance made by createGameSync (`status`: "none" when the run found the *)
(* ref occupied, else "connecting", "connected", "disconnected").  The ref  *)
(* holds the index of a run, 0 for null.  GameSync itself is outside the    *)
(* repository: a disconnected instance delivers nothing and a pending       *)
(* connect() of a disconnected instance does not revive it.                 *)
(***************************************************************************)
MaxRuns == 3

MaxEvents == 2

ProviderGameIds == {"", "g1", "g2"}

ProviderStart ==
  [mounted |-> TRUE, gameId |-> "", ref |-> 0, runs |-> <<>>, cleanup |-> FALSE,
   events |-> 0, stale |-> FALSE, cutShort |-> FALSE]

\* the cleanup that drops the ref without disconnecting the instance
EffectCleanupForgetsDisconnect(p) ==
  [p EXCEPT !.runs = [i \in DOMAIN p.runs |->
                        IF i = Len(p.runs)
                        THEN [p.runs[i] EXCEPT !.attached = FALSE]
                        ELSE p.runs[i]],
            !.ref = 0,
            !.cleanup = FALSE]

\* return () => { detach(); gameSyncRef.current?.disconnect();
\*                gameSyncRef.current = null; }
EffectCleanup(p) ==
  [p EXCEPT !.runs = [i \in DOMAIN p.runs |->
                        [p.runs[i] EXCEPT
                           !.attached = IF i = Len(p.runs) THEN FALSE ELSE @,
                           !.status = IF i = p.ref THEN "disconnected" ELSE @]],
            !.cutShort = @ \/ (p.ref # 0 /\ p.runs[p.ref].status = "connecting"),
            !.ref = 0,
            !.cleanup = FALSE]

\* the effect body for the gameId g
EffectBody(p, g) ==
  IF ~Truthy(g)
  THEN [p EXCEPT !.gameId = g]
  ELSE [p EXCEPT !.gameId = g,
                 !.runs = Append(@, [gameId |-> g, attached |-> TRUE,
                                     status |-> IF p.ref = 0 THEN "connecting"
                                                ELSE "none"]),
                 !.ref = IF p.ref = 0 THEN Len(p.runs) + 1 ELSE @,
                 !.cleanup = TRUE]

\* React runs the cleanup of the previous run, if it returned one
CleanedUp(p) == IF p.cleanup THEN EffectCleanup(p) ELSE p

Live(run) == run.status \in {"connecting", "connected"}

\* a dispatch changes state.gameId (INIT of another game, RESET_GAME)
ProviderGameIdChanges ==
  /\ provider.mounted
  /\ \E g \in ProviderGameIds \ {provider.gameId} :
       /\ Truthy(g) => Len(provider.runs) < MaxRuns
       /\ provider' = EffectBody(CleanedUp(provider), g)
  /\ UNCHANGED <<reducerVars, syncVars, video, lobby, pageVars>>

ProviderUnmounts ==
  /\ provider.mounted
  /\ provider' = [CleanedUp(provider) EXCEPT !.mounted = FALSE]
  /\ UNCHANGED <<reducerVars, syncVars, video, lobby, pageVars>>

\* the connect() started by `void gs.connect()` completes
ConnectCompletes ==
  /\ \E i \in DOMAIN provider.runs :
       /\ provider.runs[i].status = "connecting"
       /\ provider' = [provider EXCEPT !.runs[i].status = "connected"]
  /\ UNCHANGED <<reducerVars, syncVars, video, lobby, pageVars>>

\* a connected instance calls onGameStateUpdate, which dispatches
SyncEvent ==
  /\ provider.events < MaxEvents
  /\ \E i \in DOMAIN provider.runs :
       /\ provider.runs[i].status = "connected"
       /\ provider' = [provider EXCEPT
                         !.events = @ + 1,
                         !.stale = @ \/ i # provider.ref \/ ~provider.mounted]
  /\ UNCHANGED <<reducerVars, syncVars, video, lobby, pageVars>>

\* a subscription made by attachGameSync dispatches
AttachEvent ==
  /\ provider.events < MaxEvents
  /\ \E i \in DOMAIN provider.runs :
       /\ provider.runs[i].attached
       /\ provider' = [provider EXCEPT
                         !.events = @ + 1,
                         !.stale = @ \/ i # Len(provider.runs) \/ ~provider.cleanup
                                     \/ ~provider.mounted]
  /\ UNCHANGED <<reducerVars, syncVars, video, lobby, pageVars>>

InitProvider ==
  /\ ReducerInit
  /\ SyncIdle
  /\ PagesIdle
  /\ video = <<>>
  /\ provider = ProviderStart
  /\ lobby = <<>>

NextProvider ==
  \/ ProviderGameIdChanges
  \/ ProviderUnmounts
  \/ ConnectCompletes
  \/ SyncEvent
  \/ AttachEvent

SpecProvider == InitProvider /\ [][NextProvider]_vars

(***************************************************************************)
(* SpecLobby: the role effect of TrueLobby in the browsers of the two host  *)
(* clients and of one player.  `lobby.hostConnected` is the flag written by *)
(* setHostConnected (the last write wins) and read by every client;         *)
(* `lobby.c[role]` is one browser: whether the lobby is mounted, the        *)
(* participant it announced, the myParticipant its effect closure saw       *)
(* (`seen`), whether that closure saw a gameSyncInstance (the effect runs   *)
(* again when the instance is set, so that the closure of the latest run    *)
(* holds the current one), whether its document is hidden (also before the *)
(* lobby is mounted and after it was left), the 30 s timeouts               *)
(* started by hiding, oldest first (`timers`: each "pending" while the tab  *)
(* has been hidden since its start, "interrupted" once the tab was shown),  *)
(* `logged`: the last timeout callback found the tab hidden and logged, and *)
(* `elapsed`: it did so with the tab hidden for its whole window.  Every    *)
(* hide starts a timeout of its own and nothing clears one: it outlives a   *)
(* re-run of the effect and the unmount of the lobby, and ends only with    *)
(* the page.                                                                *)
(***************************************************************************)
MaxTimers == 2

LobbyRoles == {"host", "host-mobile", "playerA"}

HostTypes == {"host-pc", "host-mobile"}

TypeOf(role) ==
  IF role = "host" THEN "host-pc"
  ELSE IF role = "host-mobile" THEN "host-mobile"
  ELSE "player"

NoParticipant == [type |-> "none", isConnected |-> FALSE]

LobbyClient0 ==
  [mounted |-> FALSE, participant |-> NoParticipant, seen |-> "none", sync |-> FALSE,
   hidden |-> FALSE, timers |-> <<>>, logged |-> FALSE, elapsed |-> FALSE]

LobbyStart == [hostConnected |-> FALSE, c |-> [r \in LobbyRoles |-> LobbyClient0]]

\* the effect body: the participant of the role, setHostConnected(true) for a
\* host role, setParticipant(participant)
RoleEffectBody(l, r) ==
  [l EXCEPT !.hostConnected = IF TypeOf(r) \in HostTypes THEN TRUE ELSE @,
            !.c[r].participant = [type |-> TypeOf(r), isConnected |-> TRUE]]

\* the effect cleanup, which reads the myParticipant of its own render
RoleEffectCleanup(l, r) ==
  [l EXCEPT !.hostConnected = IF l.c[r].seen \in HostTypes THEN FALSE ELSE @]

\* the lobby page opens: first run of the effect, myParticipant still null.
\* The effect adds its listeners and does not read the visibility of the
\* document, which may be hidden already
LobbyMount ==
  /\ \E r \in LobbyRoles, s \in BOOLEAN :
       /\ ~lobby.c[r].mounted
       /\ lobby' = [RoleEffectBody(lobby, r) EXCEPT
                      !.c[r].mounted = TRUE, !.c[r].seen = "none",
                      !.c[r].sync = s,
                      !.c[r].logged = FALSE, !.c[r].elapsed = FALSE]
  /\ UNCHANGED <<reducerVars, syncVars, video, provider, pageVars>>

\* a render of client r with a changed dependency of the effect: cleanup of
\* the previous run, then the body again, whose handlers and cleanup close
\* over the myParticipant and the gameSyncInstance (s) of this render
RoleEffectRerun(l, r, s) ==
  [RoleEffectBody(RoleEffectCleanup(l, r), r) EXCEPT
     !.c[r].seen = l.c[r].participant.type, !.c[r].sync = s]

\* myParticipant changed after setParticipant: every run of the body hands
\* setParticipant a new object, and the effect depends on the object, so that
\* the effect is due again after each of its runs
LobbyRerun ==
  /\ \E r \in LobbyRoles :
       /\ lobby.c[r].mounted
       /\ lobby' = RoleEffectRerun(lobby, r, lobby.c[r].sync)
  /\ UNCHANGED <<reducerVars, syncVars, video, provider, pageVars>>

\* state.gameId or state.hostName changed in the store of client r (a load
\* completed, the host was renamed)
LobbyStateChanges ==
  /\ \E r \in LobbyRoles :
       /\ lobby.c[r].mounted
       /\ lobby' = RoleEffectRerun(lobby, r, lobby.c[r].sync)
  /\ UNCHANGED <<reducerVars, syncVars, video, provider, pageVars>>

\* the gameSyncInstance of client r, null so far, is set
LobbySyncArrives ==
  /\ \E r \in LobbyRoles :
       /\ lobby.c[r].mounted
       /\ ~lobby.c[r].sync
       /\ lobby' = RoleEffectRerun(lobby, r, TRUE)
  /\ UNCHANGED <<reducerVars, syncVars, video, provider, pageVars>>

\* the client navigates away from the lobby: the effect cleanup runs.  It
\* removes the two listeners and has no clearTimeout, so the timeouts started
\* by hiding stay pending; the document stays as it is
LobbyLeave ==
  /\ \E r \in LobbyRoles :
       /\ lobby.c[r].mounted
       /\ lobby' = [RoleEffectCleanup(lobby, r) EXCEPT
                      !.c[r].mounted = FALSE,
                      !.c[r].logged = FALSE, !.c[r].elapsed = FALSE]
  /\ UNCHANGED <<reducerVars, syncVars, video, provider, pageVars>>

\* handleBeforeUnload: the page is closed or reloaded
LobbyBeforeUnload ==
  /\ \E r \in LobbyRoles :
       /\ lobby.c[r].mounted
       /\ lobby' = [lobby EXCEPT
                      !.hostConnected =
                         IF lobby.c[r].sync /\ lobby.c[r].participant.type \in HostTypes
                         THEN FALSE ELSE @,
                      !.c[r].mounted = FALSE,
                      !.c[r].timers = <<>>, !.c[r].logged = FALSE,
                      !.c[r].elapsed = FALSE]
  /\ UNCHANGED <<reducerVars, syncVars, video, provider, pageVars>>

\* the timeouts not yet run, over all clients
TimersPending ==
  Cardinality(UNION {{<<r, i>> : i \in DOMAIN lobby.c[r].timers} : r \in LobbyRoles})

\* the document becomes hidden.  With the lobby mounted,
\* handleVisibilityChange starts a new 30 s timeout when there is a
\* gameSyncInstance, next to the ones still pending; without the lobby there
\* is no listener
LobbyHide ==
  /\ \E r \in LobbyRoles :
       /\ ~lobby.c[r].hidden
       /\ (lobby.c[r].mounted /\ lobby.c[r].sync) => TimersPending < MaxTimers
       /\ lobby' = [lobby EXCEPT
                      !.c[r].hidden = TRUE,
                      !.c[r].timers = IF lobby.c[r].mounted /\ lobby.c[r].sync
                                      THEN Append(@, "pending") ELSE @]
  /\ UNCHANGED <<reducerVars, syncVars, video, provider, pageVars>>

\* the document becomes visible again: handleVisibilityChange, where it is
\* listening, does nothing, and the window of every timeout still pending is
\* no longer a hidden one
LobbyShow ==
  /\ \E r \in LobbyRoles :
       /\ lobby.c[r].hidden
       /\ lobby' = [lobby EXCEPT
                      !.c[r].hidden = FALSE,
                      !.c[r].timers = [i \in DOMAIN @ |-> "interrupted"],
                      !.c[r].logged = FALSE,
                      !.c[r].elapsed = FALSE]
  /\ UNCHANGED <<reducerVars, syncVars, video, provider, pageVars>>

\* the callback of the oldest setTimeout(..., 30000): it logs whenever the
\* document is hidden at that time, also when it was shown and hidden again
\* in between and when the lobby was left, and changes nothing
LobbyTimeout ==
  /\ \E r \in LobbyRoles :
       /\ lobby.c[r].timers # <<>>
       /\ lobby' = [lobby EXCEPT
                      !.c[r].timers = Tail(@),
                      !.c[r].logged = lobby.c[r].hidden,
                      !.c[r].elapsed = (Head(lobby.c[r].timers) = "pending"
                                         /\ lobby.c[r].hidden)]
  /\ UNCHANGED <<reducerVars, syncVars, video, provider, pageVars>>

InitLobby ==
  /\ ReducerInit
  /\ SyncIdle
  /\ PagesIdle
  /\ video = <<>>
  /\ provider = <<>>
  /\ lobby = LobbyStart

NextLobby ==
  \/ LobbyMount
  \/ LobbyRerun
  \/ LobbyStateChanges
  \/ LobbySyncArrives
  \/ LobbyLeave
  \/ LobbyBeforeUnload
  \/ LobbyHide
  \/ LobbyShow
  \/ LobbyTimeout

SpecLobby == InitLobby /\ [][NextLobby]_vars

(***************************************************************************)
(* SpecRoom: one lobby client creating the video room.  TrueLobby exists in *)
(* two versions (`variant`): pages/Lobby.tsx and part_002.  `room` holds    *)
(* the participant type and the identity of the myParticipant object (pv,   *)
(* renewed each time the role effect calls setParticipant), the             *)
(* videoRoomCreated flag, isCreatingRoom (creating), the number of          *)
(* createVideoRoom requests outstanding, the numbers of automatic and       *)
(* manual requests issued, the endVideoRoom requests outstanding (ending)   *)
(* and issued (ends), and for each automatic effect the dependency values   *)
(* of its last run: an effect runs again when they differ from the current  *)
(* ones.                                                                    *)
(***************************************************************************)
MaxRequests == 3

MaxEnds == 2

MaxRenewals == 2

Variants == {"Lobby.tsx", "part_002"}

\* the dependency array of the host-PC effect
HostDeps(r) ==
  IF r.variant = "Lobby.tsx" THEN <<r.type, r.created, r.creating>>
  ELSE <<r.pv, r.created>>

\* the dependency array of the player effect (part_002 only)
PlayerDeps(r) == <<r.pv, r.created, r.creating>>

\* the condition of the host-PC effect
HostWants(r) ==
  /\ r.type = "host-pc"
  /\ ~r.created
  /\ r.variant = "Lobby.tsx" => ~r.creating

\* the condition of the player effect
PlayerWants(r) ==
  /\ r.type = "player"
  /\ ~r.created
  /\ ~r.creating

\* setIsCreatingRoom(true); createVideoRoom(gameId)
Requested(r) == [r EXCEPT !.creating = TRUE, !.inflight = @ + 1]

RoomStart(v) ==
  LET r == [variant |-> v, type |-> "none", pv |-> 0, created |-> FALSE,
            creating |-> FALSE, inflight |-> 0, auto |-> 0, manual |-> 0]
  IN [variant |-> v, type |-> "none", pv |-> 0, created |-> FALSE,
      creating |-> FALSE, inflight |-> 0, auto |-> 0, manual |-> 0,
      ending |-> 0, ends |-> 0,
      seenHost |-> HostDeps(r), seenPlayer |-> PlayerDeps(r)]

\* React has run every effect whose dependencies changed: only then does the
\* page handle the next click, settled promise or store update
EffectsDone(r) ==
  /\ HostDeps(r) = r.seenHost
  /\ r.variant = "part_002" => PlayerDeps(r) = r.seenPlayer

\* the role effect announces the participant of this client
RoomAnnounce ==
  /\ room.type = "none"
  /\ \E ty \in {"host-pc", "host-mobile", "player"} :
       room' = [room EXCEPT !.type = ty, !.pv = 1]
  /\ UNCHANGED <<reducerVars, syncVars, video, provider, lobby, content, frame>>

\* the automatic effects of the commit have run: their dependency values are
\* those of its render, in which isCreatingRoom was still false when one of
\* them has requested a room since
EffectsRan(r) ==
  \E q \in {r, [r EXCEPT !.creating = FALSE]} :
    /\ HostDeps(q) = r.seenHost
    /\ r.variant = "part_002" => PlayerDeps(q) = r.seenPlayer

\* the role effect, declared after the automatic effects, runs again in a
\* commit and sets a new participant object
RoomRenew ==
  /\ EffectsRan(room)
  /\ room.type # "none"
  /\ room.pv <= MaxRenewals
  /\ room' = [room EXCEPT !.pv = @ + 1]
  /\ UNCHANGED <<reducerVars, syncVars, video, provider, lobby, content, frame>>

\* the host-PC effect runs because one of its dependencies changed
RoomHostEffect ==
  /\ HostDeps(room) # room.seenHost
  /\ HostWants(room) => room.auto < MaxRequests
  /\ room' = IF HostWants(room)
             THEN [Requested(room) EXCEPT !.auto = @ + 1, !.seenHost = HostDeps(room)]
             ELSE [room EXCEPT !.seenHost = HostDeps(room)]
  /\ UNCHANGED <<reducerVars, syncVars, video, provider, lobby, content, frame>>

\* the player effect of part_002 runs because one of its dependencies changed
RoomPlayerEffect ==
  /\ room.variant = "part_002"
  /\ PlayerDeps(room) # room.seenPlayer
  /\ PlayerWants(room) => room.auto < MaxRequests
  /\ room' = IF PlayerWants(room)
             THEN [Requested(room) EXCEPT !.auto = @ + 1, !.seenPlayer = PlayerDeps(room)]
             ELSE [room EXCEPT !.seenPlayer = PlayerDeps(room)]
  /\ UNCHANGED <<reducerVars, syncVars, video, provider, lobby, content, frame>>

\* the participant is offered the room buttons: those of the host-PC
\* controls, and in pages/Lobby.tsx those of the debug panel, which is
\* rendered for a participant of any type
OffersRoomButtons(r) ==
  IF r.variant = "Lobby.tsx" THEN r.type # "none" ELSE r.type = "host-pc"

\* handleCreateVideoRoom: a click on a create button, which is rendered or
\* enabled only while !videoRoomCreated and disabled while isCreatingRoom
RoomManual ==
  /\ EffectsDone(room)
  /\ OffersRoomButtons(room)
  /\ ~room.created
  /\ ~room.creating
  /\ room.manual < MaxRequests
  /\ room' = [Requested(room) EXCEPT !.manual = @ + 1]
  /\ UNCHANGED <<reducerVars, syncVars, video, provider, lobby, content, frame>>

\* handleEndVideoRoom: a click on an end button, which is rendered or enabled
\* only while videoRoomCreated: endVideoRoom(gameId) is called and awaited
RoomEnd ==
  /\ EffectsDone(room)
  /\ OffersRoomButtons(room)
  /\ room.created
  /\ room.ends < MaxEnds
  /\ room' = [room EXCEPT !.ending = @ + 1, !.ends = @ + 1]
  /\ UNCHANGED <<reducerVars, syncVars, video, provider, lobby, content, frame>>

\* an endVideoRoom request settles: resolved, videoRoomCreated is false again;
\* rejected, the handler reports the error
RoomEndSettles ==
  /\ EffectsDone(room)
  /\ room.ending > 0
  /\ \E ok \in BOOLEAN :
       room' = [room EXCEPT !.ending = @ - 1,
                            !.created = IF ok THEN FALSE ELSE @]
  /\ UNCHANGED <<reducerVars, syncVars, video, provider, lobby, content, frame>>

\* a createVideoRoom request settles: with success the room counts as created;
\* in both cases finally(() => setIsCreatingRoom(false))
RoomSettle ==
  /\ EffectsDone(room)
  /\ room.inflight > 0
  /\ \E ok \in BOOLEAN :
       room' = [room EXCEPT !.inflight = @ - 1,
                            !.created = @ \/ ok,
                            !.creating = FALSE]
  /\ UNCHANGED <<reducerVars, syncVars, video, provider, lobby, content, frame>>

InitRoom ==
  /\ ReducerInit
  /\ SyncIdle
  /\ video = <<>>
  /\ provider = <<>>
  /\ lobby = <<>>
  /\ \E v \in Variants : room = RoomStart(v)
  /\ content = <<>>
  /\ frame = <<>>

NextRoom ==
  \/ RoomAnnounce
  \/ RoomRenew
  \/ RoomHostEffect
  \/ RoomPlayerEffect
  \/ RoomManual
  \/ RoomEnd
  \/ RoomEndSettles
  \/ RoomSettle

SpecRoom == InitRoom /\ [][NextRoom]_vars

(***************************************************************************)
(* SpecStart: the store as the lobby page reads it.  Games are loaded from  *)
(* rows with and without a video room, participants join any of the three  *)
(* slots of `players`, and their connection flags change.                   *)
(***************************************************************************)
LobbyRecords ==
  {createGame("g1", "H1", "Sam", defaultSettings),
   [createGame("g1", "H1", "Sam", defaultSettings)
      EXCEPT !.phase = "LOBBY", !.video_room_created = TRUE]}

DoLobbyLoad ==
  /\ CanDispatch
  /\ \E r \in LobbyRecords :
       Dispatch([type |-> "INIT", payload |-> mapRecordToState(r)])

DoLobbyJoin ==
  /\ CanDispatch
  /\ \E id \in PlayerIds :
       Dispatch([type |-> "ADD_PLAYER", player |-> joinedPlayer(id)])

DoLobbyPresence ==
  /\ CanDispatch
  /\ \E id \in PlayerIds, c \in BOOLEAN :
       Dispatch([type |-> "UPDATE_PLAYER", id |-> id, partial |-> [isConnected |-> c]])

NextStart ==
  \/ DoLobbyLoad
  \/ DoLobbyJoin
  \/ DoLobbyPresence
  \/ Render

SpecStart == Init /\ [][NextStart]_vars

\* Object.values(state.players).filter((p) => p.isConnected).length
connectedPlayers(s) ==
  Cardinality({id \in DOMAIN s.players :
                 /\ Has(s.players[id], "isConnected")
                 /\ s.players[id].isConnected = TRUE})

\* state.videoRoomCreated || false
videoRoomCreated(s) == Has(s, "videoRoomCreated") /\ s.videoRoomCreated = TRUE

\* the disabled attribute of the Start Game button
StartDisabled(s) == connectedPlayers(s) < 1 \/ ~videoRoomCreated(s)

(***************************************************************************)
(* SpecContent: one VideoContent.  `content` holds the props (type, gameId), *)
(* what it reads of the game state (loaded: the gameState.gameId, 0 before   *)
(* a game is loaded; url: gameState.videoRoomUrl is set), its own state      *)
(* (attempted, creating, stamp: lastRoomCreationAttempt as the ordinal of    *)
(* the attempt, 0 for never; aged: more than 10 s have passed since), the    *)
(* 2 s timeout, the runs of the check-and-create routine that have not      *)
(* ended (routine), and for each effect the dependency values of its last    *)
(* run.  The url and the loaded gameId come from the store and change only   *)
(* with it.  The model does not order the expiry of the timeout against the  *)
(* commit that follows a state change.                                       *)
(***************************************************************************)
MaxGames == 2

ContentTypes == {"host", "controller", "player"}

ContentStart ==
  [mounted |-> "no", type |-> "player", gameId |-> 1, loaded |-> 0, url |-> FALSE,
   attempted |-> FALSE, creating |-> FALSE, stamp |-> 0, aged |-> FALSE,
   timer |-> "none", routine |-> 0, runs |-> 0, scheduled |-> 0,
   seenGame |-> 0, seenCheck |-> <<>>]

\* the dependency array of the check-and-create effect
CheckDeps(c) == <<c.loaded, c.url, c.type, c.gameId, c.attempted, c.creating, c.stamp>>

\* the condition under which the effect schedules the routine
CheckWanted(c) ==
  /\ c.type \in {"host", "controller"}
  /\ c.loaded = c.gameId
  /\ ~c.url
  /\ ~c.attempted
  /\ ~c.creating
  /\ (c.stamp = 0 \/ c.aged)

\* the effect on [gameId]: reset the creation flags
ResetEffect(c) ==
  IF c.seenGame = c.gameId THEN c
  ELSE [c EXCEPT !.attempted = FALSE, !.creating = FALSE, !.stamp = 0, !.aged = FALSE,
                 !.seenGame = c.gameId]

\* the check-and-create effect of the render r, applied to c: the cleanup of
\* its previous run (clearTimeout), then its body with the values of r
CheckEffect(c, r) ==
  IF c.seenCheck = CheckDeps(r) THEN c
  ELSE LET cleaned == [c EXCEPT !.timer = IF @ = "pending" THEN "cleared" ELSE @,
                                !.seenCheck = CheckDeps(r)]
       IN IF CheckWanted(r)
          THEN [cleaned EXCEPT !.stamp = c.scheduled + 1, !.aged = FALSE,
                               !.attempted = TRUE, !.timer = "pending",
                               !.scheduled = @ + 1]
          ELSE cleaned

\* the effects of one commit, in the order of their declaration
Commit(c) == CheckEffect(ResetEffect(c), c)

ContentSettled(c) == c.seenGame = c.gameId /\ c.seenCheck = CheckDeps(c)

\* SimpleKitchenSinkVideo renders VideoContent once it has a call object,
\* which it creates when the store has a room url; VideoContent reads the
\* store in its first render, with the url the store has by then
ContentMount ==
  /\ content.mounted = "no"
  /\ \E ty \in ContentTypes, ld \in 0..1, u \in BOOLEAN :
       content' = Commit([content EXCEPT !.mounted = "yes", !.type = ty,
                                         !.loaded = ld, !.url = u])
  /\ UNCHANGED <<reducerVars, syncVars, video, provider, lobby, room, frame>>

\* the commit after a change of props, game state or own state
ContentCommit ==
  /\ content.mounted = "yes"
  /\ ~ContentSettled(content)
  /\ content' = Commit(content)
  /\ UNCHANGED <<reducerVars, syncVars, video, provider, lobby, room, frame>>

\* the game state of the gameId arrives in the store, with the room url of
\* that game or without one
ContentLoads ==
  /\ content.mounted = "yes"
  /\ ContentSettled(content)
  /\ content.loaded # content.gameId
  /\ \E u \in BOOLEAN :
       content' = [content EXCEPT !.loaded = content.gameId, !.url = u]
  /\ UNCHANGED <<reducerVars, syncVars, video, provider, lobby, room, frame>>

\* another client stores a room url in the game state
ContentUrlArrives ==
  /\ content.mounted = "yes"
  /\ ContentSettled(content)
  /\ content.loaded = content.gameId
  /\ ~content.url
  /\ content' = [content EXCEPT !.url = TRUE]
  /\ UNCHANGED <<reducerVars, syncVars, video, provider, lobby, room, frame>>

\* the room of the game was ended (video_room_url: null) and the row is
\* loaded into the store again
ContentUrlCleared ==
  /\ content.mounted = "yes"
  /\ ContentSettled(content)
  /\ content.loaded = content.gameId
  /\ content.url
  /\ content' = [content EXCEPT !.url = FALSE]
  /\ UNCHANGED <<reducerVars, syncVars, video, provider, lobby, room, frame>>

\* the gameId prop changes; the store keeps the state it has
ContentGameChanges ==
  /\ content.mounted = "yes"
  /\ ContentSettled(content)
  /\ content.gameId < MaxGames
  /\ content' = [content EXCEPT !.gameId = @ + 1]
  /\ UNCHANGED <<reducerVars, syncVars, video, provider, lobby, room, frame>>

\* ten seconds pass after the last attempt
ContentAges ==
  /\ content.mounted = "yes"
  /\ content.stamp # 0
  /\ ~content.aged
  /\ content' = [content EXCEPT !.aged = TRUE]
  /\ UNCHANGED <<reducerVars, syncVars, video, provider, lobby, room, frame>>

\* the 2 s timeout expires: a run of checkAndCreateRoom starts, next to the
\* ones that have not ended, with setIsCreatingRoom(true)
ContentTimeout ==
  /\ content.timer = "pending"
  /\ content' = [content EXCEPT !.timer = "fired", !.routine = @ + 1,
                                 !.runs = @ + 1, !.creating = TRUE]
  /\ UNCHANGED <<reducerVars, syncVars, video, provider, lobby, room, frame>>

\* a run of checkAndCreateRoom ends: a room was found or created, or it
\* failed; its finally block calls setIsCreatingRoom(false) whether or not
\* another run is still going
ContentRoutineEnds ==
  /\ content.routine > 0
  /\ \E got \in BOOLEAN :
       content' = [content EXCEPT !.routine = @ - 1, !.creating = FALSE,
                                  !.url = @ \/ got]
  /\ UNCHANGED <<reducerVars, syncVars, video, provider, lobby, room, frame>>

ContentUnmount ==
  /\ content.mounted = "yes"
  /\ content' = [content EXCEPT !.mounted = "gone",
                                 !.timer = IF @ = "pending" THEN "cleared" ELSE @]
  /\ UNCHANGED <<reducerVars, syncVars, video, provider, lobby, room, frame>>

InitContent ==
  /\ ReducerInit
  /\ SyncIdle
  /\ video = <<>>
  /\ provider = <<>>
  /\ lobby = <<>>
  /\ room = <<>>
  /\ frame = <<>>
  /\ content = ContentStart

NextContent ==
  \/ ContentMount
  \/ ContentCommit
  \/ ContentLoads
  \/ ContentUrlArrives
  \/ ContentUrlCleared
  \/ ContentGameChanges
  \/ ContentAges
  \/ ContentTimeout
  \/ ContentRoutineEnds
  \/ ContentUnmount

SpecContent == InitContent /\ [][NextContent]_vars

\* every commit, timeout and running routine is eventually processed
SpecContentLive ==
  /\ SpecContent
  /\ WF_vars(ContentCommit)
  /\ WF_vars(ContentTimeout)
  /\ WF_vars(ContentRoutineEnds)

(***************************************************************************)
(* SpecFrame: one IndividualVideoFrame.  `frame` holds the props            *)
(* participantType (type) and isConnected (connectedProp), the component's  *)
(* state (isConnected, isLoading, isCallObjectReady, error), whether        *)
(* containerRef.current is an element (container: the last commit rendered  *)
(* the branch with the video container), the runs of setup() (setups:       *)
(* "skipped" when it returned at its first line and "returned" once its     *)
(* promise has resolved; "importing" while the dynamic import is pending,   *)
(* then "fallback", "created" or "failed"), the Daily call objects created  *)
(* (objects: "live" or "destroyed") and callObjectRef.current as an index   *)
(* into objects (ref, 0 for null).                                          *)
(***************************************************************************)
MaxSetups == 5

FrameTypes == {"host", "playerA", "playerB"}

FrameStart ==
  [mounted |-> "no", type |-> "none", connectedProp |-> FALSE, isConnected |-> FALSE,
   isLoading |-> FALSE, isCallObjectReady |-> FALSE, error |-> "", container |-> FALSE,
   ref |-> 0, setups |-> <<>>, objects |-> <<>>]

\* the branch the component returns: the error box, the loading box, or the
\* frame with the element that carries ref={containerRef}
FrameBranch(f) ==
  IF f.error # "" THEN "error"
  ELSE IF f.isLoading \/ ~f.isCallObjectReady THEN "loading"
  ELSE "frame"

\* a commit attaches containerRef to the element of the branch rendered
FrameCommitted(f) == [f EXCEPT !.container = (FrameBranch(f) = "frame")]

\* setup() with its first line reading the call object alone
SetupStartsWithoutContainerTest(f) ==
  IF f.ref # 0
  THEN [f EXCEPT !.setups = Append(@, "skipped")]
  ELSE FrameCommitted([f EXCEPT !.setups = Append(@, "importing"),
                                !.isLoading = TRUE, !.error = ""])

\* setup() up to its await: if (callObjectRef.current || !containerRef.current) return;
\* setIsLoading(true); setError(''); await import('@daily-co/daily-js')
SetupStarts(f) ==
  IF f.ref # 0 \/ ~f.container
  THEN [f EXCEPT !.setups = Append(@, "skipped")]
  ELSE FrameCommitted([f EXCEPT !.setups = Append(@, "importing"),
                                !.isLoading = TRUE, !.error = ""])

\* the effect cleanup: destroy the call object in the ref, if any
FrameCleanup(f) ==
  IF f.ref = 0 THEN f
  ELSE [f EXCEPT !.objects[f.ref] = "destroyed", !.ref = 0]

\* the frame is mounted: useState(initialIsConnected), first commit, effect
FrameMount ==
  /\ frame.mounted = "no"
  /\ \E ty \in FrameTypes, conn \in BOOLEAN :
       frame' = SetupStarts(FrameCommitted(
                  [frame EXCEPT !.mounted = "yes", !.type = ty,
                                !.connectedProp = conn, !.isConnected = conn]))
  /\ UNCHANGED <<reducerVars, syncVars, video, provider, lobby, room, content>>

\* the participantType prop changes: cleanup, then the effect again
FrameTypeChanges ==
  /\ frame.mounted = "yes"
  /\ Len(frame.setups) < MaxSetups
  /\ \E ty \in FrameTypes \ {frame.type} :
       frame' = SetupStarts(FrameCleanup(FrameCommitted([frame EXCEPT !.type = ty])))
  /\ UNCHANGED <<reducerVars, syncVars, video, provider, lobby, room, content>>

\* the parent passes another isConnected: the state of the frame keeps the
\* initial value, and the effect, which depends on participantType alone,
\* does not run
FramePropChanges ==
  /\ frame.mounted = "yes"
  /\ frame' = FrameCommitted([frame EXCEPT !.connectedProp = ~@])
  /\ UNCHANGED <<reducerVars, syncVars, video, provider, lobby, room, content>>

FrameUnmount ==
  /\ frame.mounted = "yes"
  /\ frame' = [FrameCleanup(frame) EXCEPT !.mounted = "gone", !.container = FALSE]
  /\ UNCHANGED <<reducerVars, syncVars, video, provider, lobby, room, content>>

\* what setup i does once its dynamic import has settled.  "fallback": the
\* import failed (inner catch).  "created": createCallObject, the object in
\* callObjectRef.current, the iframe appended when there is a container.
\* "throws": createCallObject raises and the outer catch sets the error.
\* "throwsLate": iframe() or appendChild raises with the object already in the
\* ref.  Each path ends with isCallObjectReady true and isLoading false; a
\* frame that is unmounted keeps no state, but the ref is still written
FrameImportSettles(f, i, outcome) ==
  LET made == [f EXCEPT !.objects = Append(@, "live"), !.ref = Len(f.objects) + 1]
      after == IF outcome = "fallback" THEN [f EXCEPT !.setups[i] = "fallback"]
               ELSE IF outcome = "created" THEN [made EXCEPT !.setups[i] = "created"]
               ELSE IF outcome = "throws"
                    THEN [f EXCEPT !.setups[i] = "failed",
                                   !.error = "Failed to setup video frame"]
               ELSE [made EXCEPT !.setups[i] = "failed",
                                 !.error = "Failed to setup video frame"]
  IN IF f.mounted = "yes"
     THEN FrameCommitted([after EXCEPT !.isCallObjectReady = TRUE, !.isLoading = FALSE])
     ELSE [after EXCEPT !.error = f.error]

\* the promise of a run of setup() settles: a run that returned at its first
\* line has done nothing and resolves; a run at its import goes on from there.
\* A setup reaches the import only with a container, and the container is
\* rendered only after a setup has set isCallObjectReady: no reachable state
\* has a setup at its import (SetupNeverImports)
SetupSettles ==
  /\ \E i \in DOMAIN frame.setups :
       \/ /\ frame.setups[i] = "skipped"
          /\ frame' = [frame EXCEPT !.setups[i] = "returned"]
       \/ /\ frame.setups[i] = "importing"
          /\ \E outcome \in {"fallback", "created", "throws", "throwsLate"} :
               frame' = FrameImportSettles(frame, i, outcome)
  /\ UNCHANGED <<reducerVars, syncVars, video, provider, lobby, room, content>>

InitFrame ==
  /\ ReducerInit
  /\ SyncIdle
  /\ video = <<>>
  /\ provider = <<>>
  /\ lobby = <<>>
  /\ room = <<>>
  /\ content = <<>>
  /\ frame = FrameStart

NextFrame ==
  \/ FrameMount
  \/ FrameTypeChanges
  \/ FramePropChanges
  \/ FrameUnmount
  \/ SetupSettles

SpecFrame == InitFrame /\ [][NextFrame]_vars

(***************************************************************************)
(* SpecTimer: the timer actions alone, with durations and tick counts long *)
(* enough to run a countdown to zero and past it.                          *)
(***************************************************************************)
TimerDurations == 0..MaxDuration

CanTick == ~threw /\ steps < MaxDuration + MaxExtraTicks + 1 /\ Len(queue) < MaxQueue

TimerStart ==
  /\ CanTick
  /\ \E d \in TimerDurations :
       Dispatch([type |-> "START_TIMER", duration |-> d])

TimerTick ==
  /\ CanTick
  /\ Dispatch([type |-> "TICK_TIMER"])

TimerUpdate ==
  /\ CanTick
  /\ \E d \in TimerValues, r \in BOOLEAN :
       Dispatch([type |-> "UPDATE_TIMER", timer |-> d, isRunning |-> r])

NextTimer == TimerStart \/ TimerTick \/ TimerUpdate \/ Render

SpecTimer == Init /\ [][NextTimer]_vars

(***************************************************************************)
(* useGame().actions: each helper dispatches, then awaits a persistence    *)
(* call, then names a broadcast.  The values it persists and names are     *)
(* computed from `state`, the state of the render the helper closed over   *)
(* (the rendered state, which its own dispatch has not changed yet).  x    *)
(* holds the arguments.                                                    *)
(***************************************************************************)
Helpers ==
  {"startGame", "joinGame", "updateHostName", "updateSegmentSettings", "nextQuestion",
   "nextSegment", "updateScore", "addStrike", "useSpecialButton", "startTimer",
   "stopTimer", "tickTimer", "resetGame"}

IndexOf(seq, v) == IF \E i \in 1..Len(seq) : seq[i] = v
                   THEN CHOOSE i \in 1..Len(seq) : seq[i] = v
                   ELSE 0

\* nextSegment's `next`: the successor of state.currentSegment in `order`
NextSegmentOf(s) ==
  LET idx == IF Has(s, "currentSegment") /\ s.currentSegment # "null"
             THEN IndexOf(order, s.currentSegment) + 1
             ELSE 1
  IN IF idx <= Len(order) THEN order[idx] ELSE "null"

\* the actions a helper dispatches, in order
HelperActions(h, s, x) ==
  CASE h = "startGame" ->
         <<[type |-> "START_GAME", gameId |-> x.gameId]>>
    [] h = "joinGame" ->
         <<[type |-> "JOIN_GAME", playerId |-> x.playerId, playerData |-> x.playerData]>>
    [] h = "updateHostName" -> <<[type |-> "UPDATE_HOST_NAME", hostName |-> x.name]>>
    [] h = "updateSegmentSettings" ->
         <<[type |-> "UPDATE_SEGMENT_SETTINGS", settings |-> x.settings]>>
    [] h = "nextQuestion" -> <<[type |-> "NEXT_QUESTION"]>>
    [] h = "nextSegment" ->
         <<[type |-> "NEXT_SEGMENT"],
           [type |-> "SET_CURRENT_SEGMENT", segment |-> NextSegmentOf(s)]>>
    [] h = "updateScore" ->
         <<[type |-> "UPDATE_SCORE", playerId |-> x.playerId, points |-> x.points]>>
    [] h = "addStrike" -> <<[type |-> "ADD_STRIKE", playerId |-> x.playerId]>>
    [] h = "useSpecialButton" ->
         <<[type |-> "USE_SPECIAL_BUTTON", playerId |-> x.playerId,
            buttonType |-> x.buttonType]>>
    [] h = "startTimer" -> <<[type |-> "START_TIMER", duration |-> x.duration]>>
    [] h = "stopTimer" -> <<[type |-> "STOP_TIMER"]>>
    [] h = "tickTimer" -> <<[type |-> "TICK_TIMER"]>>
    [] h = "resetGame" -> <<[type |-> "RESET_GAME"]>>

\* the helper itself raises a TypeError reading state.players[playerId].<field>
HelperThrows(h, s, x) ==
  /\ h \in {"updateScore", "addStrike", "useSpecialButton"}
  /\ NoPlayer(s, x.playerId)

\* (player.strikes || 0) + 1 on the closed-over state
StrikesPlusOne(player) ==
  IF Has(player, "strikes") /\ player.strikes # NaN THEN player.strikes + 1 ELSE 1

\* { ...player.specialButtons, [buttonType]: false }
ButtonsAfter(player, b) ==
  Put(IF Has(player, "specialButtons") THEN player.specialButtons ELSE EmptyObject, b, FALSE)

\* the value a helper computes for the field it persists and broadcasts
HelperValue(h, s, x) ==
  CASE h = "nextQuestion" -> JsAddTo(s, "currentQuestionIndex", 1)
    [] h = "nextSegment" -> NextSegmentOf(s)
    [] h = "updateScore" -> JsAddTo(s.players[x.playerId], "score", x.points)
    [] h = "addStrike" -> StrikesPlusOne(s.players[x.playerId])
    [] h = "useSpecialButton" -> ButtonsAfter(s.players[x.playerId], x.buttonType)
    [] h = "tickTimer" -> JsAddTo(s, "timer", -1)
    [] OTHER -> 0

\* the GameDatabase call of a helper: [op, id, data]
HelperPersist(h, s, x) ==
  LET v == HelperValue(h, s, x)
      game(data) == [op |-> "updateGame", id |-> IF h = "startGame" THEN x.gameId
                                                 ELSE IF Has(s, "gameId") THEN s.gameId
                                                 ELSE "undefined",
                     data |-> data]
      player(data) == [op |-> "updatePlayer", id |-> x.playerId, data |-> data]
  IN CASE h = "startGame" ->
            \* host_name: hostName ?? state.hostName, undefined when both are missing
            game(IF Has(x, "hostName") /\ x.hostName # "null"
                 THEN [phase |-> "PLAYING", host_name |-> x.hostName]
                 ELSE IF Has(s, "hostName")
                 THEN [phase |-> "PLAYING", host_name |-> s.hostName]
                 ELSE [phase |-> "PLAYING"])
       [] h = "joinGame" ->
            \* { name: playerData.name || '', flag: playerData.flag,
            \*   club: playerData.club, role: playerId }
            [op |-> "addPlayer", id |-> x.playerId,
             data |-> Spread([name |-> IF Has(x.playerData, "name") THEN x.playerData.name
                                       ELSE "",
                              role |-> x.playerId],
                             [k \in DOMAIN x.playerData \cap {"flag", "club"} |->
                                x.playerData[k]])]
       [] h = "updateHostName" -> game([host_name |-> x.name])
       [] h = "updateSegmentSettings" -> game([segment_settings |-> x.settings])
       [] h = "nextQuestion" -> game([current_question_index |-> v])
       [] h = "nextSegment" -> game([current_segment |-> v, current_question_index |-> 0])
       [] h = "updateScore" -> player([score |-> v])
       [] h = "addStrike" -> player([strikes |-> v])
       [] h = "useSpecialButton" -> player([special_buttons |-> v])
       [] h = "startTimer" -> game([timer |-> x.duration, is_timer_running |-> TRUE])
       [] h = "stopTimer" -> game([timer |-> 0, is_timer_running |-> FALSE])
       [] h = "tickTimer" -> [op |-> "none"]
       [] h = "resetGame" ->
            game([phase |-> "CONFIG", current_segment |-> "null",
                  current_question_index |-> 0, timer |-> 0, is_timer_running |-> FALSE])

\* the message named by the broadcast expression of a helper: [kind, data]
BroadcastArgs(h, s, x) ==
  LET v == HelperValue(h, s, x)
      delta(data) == [kind |-> "gameState", data |-> data]
      onePlayer(data) == delta([players |-> [id \in {x.playerId} |-> data]])
  IN CASE h = "startGame" -> delta([phase |-> "PLAYING"])
       [] h = "joinGame" ->
            [kind |-> "playerJoin", data |-> [playerId |-> x.playerId, data |-> x.playerData]]
       [] h = "updateHostName" -> [kind |-> "hostUpdate", data |-> [name |-> x.name]]
       [] h = "updateSegmentSettings" -> delta([segment_settings |-> x.settings])
       [] h = "nextQuestion" -> delta([current_question_index |-> v])
       [] h = "nextSegment" -> delta([current_segment |-> v, current_question_index |-> 0])
       [] h = "updateScore" -> onePlayer([score |-> v])
       [] h = "addStrike" -> onePlayer([strikes |-> v])
       [] h = "useSpecialButton" -> onePlayer([specialButtons |-> v])
       [] h = "startTimer" -> delta([timer |-> x.duration, isTimerRunning |-> TRUE])
       [] h = "stopTimer" -> delta([timer |-> 0, isTimerRunning |-> FALSE])
       [] h = "tickTimer" -> delta([timer |-> v])
       [] h = "resetGame" -> delta([phase |-> "CONFIG"])

\* the GameSync call of a helper: gameSyncRef.current?.broadcast...(...) is
\* evaluated in useGame, where no binding named gameSyncRef exists (the ref is
\* a local of GameProvider), so it raises a ReferenceError and no GameSync
\* method is called
HelperBroadcast(h, s, x) == [kind |-> "none", raised |-> "ReferenceError"]

(***************************************************************************)
(* SpecSync: the clients of one session.  Each runs a GameProvider: a      *)
(* store (cstate: the state of its last render; cqueue: the actions        *)
(* dispatched since), and, while state.gameId is set, one GameSync whose   *)
(* onGameStateUpdate callback closed over `state` as it was in the render  *)
(* that created the channel (snapshot).  `session` counts the calls of    *)
(* startSession of the client that await createGame, `pend` lists the helper *)
(* calls of the client that reached their persistence call, `inbox` the    *)
(* messages the transport holds for it.  No helper of these clients ever   *)
(* broadcasts (HelperBroadcast), so the messages are those of peers that   *)
(* publish on the same channel by other means (PeerDeltas).  `lastCall`    *)
(* describes the helper call made last.                                    *)
(***************************************************************************)
Clients == {"c1", "c2"}

RECURSIVE RunFrom(_, _, _)
\* the store after the queued actions acts[i..]: [state, threw]
RunFrom(s, acts, i) ==
  IF i > Len(acts) THEN [state |-> s, threw |-> FALSE]
  ELSE IF Throws(s, acts[i]) THEN [state |-> s, threw |-> TRUE]
  ELSE RunFrom(gameReducer(s, acts[i]), acts, i + 1)

Run(s, acts) == RunFrom(s, acts, 1)

\* the effect of GameProvider after a render that took the store from old to new:
\* when state.gameId changed, the cleanup disconnects the channel, and the effect
\* creates a new one closing over the new state when the new gameId is truthy
EffectSync(c, old, new) ==
  IF GameIdOf(old) = GameIdOf(new) THEN sync[c] ELSE Truthy(GameIdOf(new))

EffectSnapshot(c, old, new) ==
  IF GameIdOf(old) = GameIdOf(new) THEN snapshot[c]
  ELSE IF Truthy(GameIdOf(new)) THEN new ELSE EmptyObject

\* the messages still due to c once the render is done: a cleanup unsubscribes
EffectInbox(c, old, new) ==
  IF GameIdOf(old) = GameIdOf(new) THEN inbox[c] ELSE <<>>

\* onGameStateUpdate: (gs) => dispatch({ type: 'INIT', payload: { ...state, ...gs } })
onGameStateUpdate(captured, gs) == [type |-> "INIT", payload |-> Spread(captured, gs)]

\* GameDatabase.updateGame / updatePlayer / addPlayer on the stored rows
dbApply(d, call) ==
  CASE call.op = "updateGame" ->
         IF Has(d.game, "id") /\ d.game.id = call.id
         THEN [d EXCEPT !.game = Spread(d.game, call.data)] ELSE d
    [] call.op \in {"updatePlayer", "addPlayer"} ->
         [d EXCEPT !.players = Put(d.players, call.id,
                     Spread(IF Has(d.players, call.id) THEN d.players[call.id] ELSE EmptyObject,
                            call.data))]
    [] OTHER -> d

HelperInputs(h) ==
  CASE h = "startGame" -> {[gameId |-> "g1"]}
    [] h = "joinGame" -> {[playerId |-> "playerA", playerData |-> d] :
                            d \in {[name |-> "Ann"],
                                   [name |-> "Ann", flag |-> "sa", club |-> "hilal"]}}
    [] h = "updateHostName" -> {[name |-> "Sam"]}
    [] h = "updateSegmentSettings" -> {[settings |-> [s \in SegmentCodes |-> 2]]}
    [] h = "updateScore" -> {[playerId |-> id, points |-> 2] : id \in {"playerA", "playerB"}}
    [] h = "addStrike" -> {[playerId |-> id] : id \in {"playerA", "playerB"}}
    [] h = "useSpecialButton" -> {[playerId |-> "playerA", buttonType |-> b] : b \in ButtonKinds}
    [] h = "startTimer" -> {[duration |-> 1]}
    [] OTHER -> {EmptyObject}

\* game-state deltas published by peers
PeerDeltas == {[timer |-> 5], [players |-> [playerA |-> [score |-> 2]]]}

RECURSIVE SumOver(_, _)
SumOver(f, S) ==
  IF S = {} THEN 0
  ELSE LET c == CHOOSE x \in S : TRUE IN f[c] + SumOver(f, S \ {c})

\* the createGame calls awaited by the startSession calls of all clients
SessionsAwaited == SumOver(session, Clients)

\* the number of things outstanding: renders due, createGame calls awaited,
\* persistence calls awaited, messages held by the transport
InFlight ==
  Cardinality({c \in Clients : cqueue[c] # <<>>})
  + SessionsAwaited
  + Cardinality(UNION {{<<c, i>> : i \in {j \in DOMAIN pend[c] :
                                              pend[c][j].stage = "persist"}} :
                       c \in Clients})
  + Cardinality(UNION {{<<c, i>> : i \in DOMAIN inbox[c]} : c \in Clients})

\* startSession is called: GameDatabase.createGame is called and awaited
StartSession(c) ==
  /\ ~crashed[c]
  /\ started < MaxSessions
  /\ InFlight < MaxInFlight
  /\ session' = [session EXCEPT ![c] = @ + 1]
  /\ started' = started + 1
  /\ UNCHANGED <<cstate, cqueue, snapshot, sync, inbox, pend, lastCall, db, crashed, calls,
                 arrivals>>
  /\ UNCHANGED <<reducerVars, auxVars>>

\* createGame resolves with the record of the new row, or with null:
\* if (record) dispatch({ type: 'INIT', payload: mapRecordToState(record) })
SessionCreated(c) ==
  /\ session[c] > 0
  /\ \E ok \in BOOLEAN :
       LET record == createGame("g1", "H1", "Sam", defaultSettings)
       IN /\ db' = IF ok THEN [db EXCEPT !.game = record] ELSE db
          /\ cqueue' = IF ok /\ ~crashed[c]
                       THEN [cqueue EXCEPT ![c] = Append(@, [type |-> "INIT",
                                                  payload |-> mapRecordToState(record)])]
                       ELSE cqueue
  /\ session' = [session EXCEPT ![c] = @ - 1]
  /\ UNCHANGED <<cstate, snapshot, sync, inbox, pend, lastCall, crashed, calls, started,
                 arrivals>>
  /\ UNCHANGED <<reducerVars, auxVars>>

\* the helper call before the one being made: who called what, whether it
\* reached its persistence call, and which clients had a channel open (heard)
\* when it was made
EarlierCall ==
  IF lastCall.helper = "none" THEN [helper |-> "none"]
  ELSE [helper |-> lastCall.helper, client |-> lastCall.client, x |-> lastCall.x,
        went |-> ~lastCall.rejected, heard |-> lastCall.heard]

\* the last action a helper call dispatches, marked with the call it belongs to
Marked(acts, info) ==
  [i \in 1..Len(acts) |-> IF i = Len(acts) THEN Put(acts[i], "call", info) ELSE acts[i]]

\* a helper of useGame().actions is called on client c: its synchronous part,
\* computed from the state of c's last render.  It dispatches; then either it
\* raises a TypeError reading a player (rejected), or it makes its GameDatabase
\* call and awaits it; tickTimer makes none and raises the ReferenceError of
\* its broadcast expression to its caller.  hs are the helpers that may be
\* called and max the number of calls made in a run
Call(c, hs, max) ==
  /\ ~crashed[c]
  /\ calls < max
  /\ Len(cqueue[c]) < MaxQueue
  /\ InFlight < MaxInFlight
  /\ \E h \in hs : \E x \in HelperInputs(h) :
       LET s == cstate[c]
           rejects == HelperThrows(h, s, x)
       IN /\ cqueue' = [cqueue EXCEPT ![c] = @ \o Marked(HelperActions(h, s, x),
                                                           [helper |-> h, x |-> x])]
          /\ lastCall' = [client |-> c, helper |-> h, x |-> x, before |-> s,
                          all |-> cstate, rejected |-> rejects,
                          heard |-> {d \in Clients : sync[d]}, earlier |-> EarlierCall,
                          persist |-> IF rejects THEN [op |-> "none"]
                                      ELSE HelperPersist(h, s, x),
                          bcast |-> HelperBroadcast(h, s, x),
                          raised |-> IF rejects THEN "TypeError"
                                     ELSE IF h = "tickTimer"
                                     THEN HelperBroadcast(h, s, x).raised
                                     ELSE "none"]
          /\ pend' = IF rejects \/ h = "tickTimer" THEN pend
                     ELSE [pend EXCEPT ![c] = Append(@,
                             [helper |-> h, stage |-> "persist", ended |-> "none",
                              persist |-> HelperPersist(h, s, x)])]
  /\ calls' = calls + 1
  /\ UNCHANGED <<cstate, snapshot, sync, inbox, db, crashed, session, started, arrivals>>
  /\ UNCHANGED <<reducerVars, auxVars>>

\* the render of client c after one or more dispatches, and the effect of
\* GameProvider after it.  When the reducer raises, nothing is committed and
\* the provider is unmounted: its cleanup disconnects the channel
ClientRender(c) ==
  /\ ~crashed[c]
  /\ cqueue[c] # <<>>
  /\ \E r \in {Run(cstate[c], cqueue[c])} :
     LET old == cstate[c]
         new == r.state
     IN /\ cstate' = [cstate EXCEPT ![c] = IF r.threw THEN old ELSE new]
        /\ crashed' = [crashed EXCEPT ![c] = r.threw]
        /\ sync' = [sync EXCEPT ![c] = IF r.threw THEN FALSE
                                       ELSE EffectSync(c, old, new)]
        /\ snapshot' = [snapshot EXCEPT ![c] = IF r.threw THEN EmptyObject
                                               ELSE EffectSnapshot(c, old, new)]
        /\ inbox' = [inbox EXCEPT ![c] = IF r.threw THEN <<>>
                                         ELSE EffectInbox(c, old, new)]
  /\ cqueue' = [cqueue EXCEPT ![c] = <<>>]
  /\ UNCHANGED <<pend, lastCall, db, calls, session, started, arrivals>>
  /\ UNCHANGED <<reducerVars, auxVars>>

\* the awaited GameDatabase call of a pending helper resolves: the helper goes
\* on to its broadcast expression, which raises, and no try/catch surrounds
\* it, so the promise the helper returned is rejected
Persist(c) ==
  /\ \E i \in 1..Len(pend[c]) :
       /\ pend[c][i].stage = "persist"
       /\ db' = dbApply(db, pend[c][i].persist)
       /\ pend' = [pend EXCEPT ![c][i].stage = "rejected",
                               ![c][i].ended = HelperBroadcast(pend[c][i].helper,
                                                               cstate[c], EmptyObject).raised]
  /\ UNCHANGED <<cstate, cqueue, snapshot, sync, inbox, lastCall, crashed, calls, session,
                 started, arrivals>>
  /\ UNCHANGED <<reducerVars, auxVars>>

\* the awaited GameDatabase call of a pending helper rejects: no try/catch
\* surrounds the await, so the helper ends there and the promise it returned
\* is rejected
Reject(c) ==
  /\ \E i \in 1..Len(pend[c]) :
       /\ pend[c][i].stage = "persist"
       /\ pend' = [pend EXCEPT ![c][i].stage = "rejected", ![c][i].ended = "database"]
  /\ UNCHANGED <<cstate, cqueue, snapshot, sync, inbox, lastCall, db, crashed, calls,
                 session, started, arrivals>>
  /\ UNCHANGED <<reducerVars, auxVars>>

\* a peer publishes a game-state delta: the transport holds it for the
\* subscribed client c
Receive(c) ==
  /\ sync[c]
  /\ ~crashed[c]
  /\ arrivals < MaxArrivals
  /\ InFlight < MaxInFlight
  /\ \E gs \in PeerDeltas :
       inbox' = [inbox EXCEPT ![c] = Append(@, [from |-> "peer", kind |-> "gameState",
                                                 data |-> gs])]
  /\ arrivals' = arrivals + 1
  /\ UNCHANGED <<cstate, cqueue, snapshot, sync, pend, lastCall, db, crashed, calls,
                 session, started>>
  /\ UNCHANGED <<reducerVars, auxVars>>

\* the first message of some origin still due to c
Deliverable(c, i) ==
  /\ i \in 1..Len(inbox[c])
  /\ \A j \in 1..(i - 1) : inbox[c][j].from # inbox[c][i].from

\* the transport delivers a message to c's callbacks: onGameStateUpdate
\* dispatches (the action carries the delta it was made from in `delta`);
\* onPlayerJoin and onHostUpdate are empty
Deliver(c) ==
  /\ ~crashed[c]
  /\ sync[c]
  /\ Len(cqueue[c]) < MaxQueue
  /\ \E i \in 1..Len(inbox[c]) :
       /\ Deliverable(c, i)
       /\ LET msg == inbox[c][i]
          IN /\ cqueue' = IF msg.kind = "gameState"
                          THEN [cqueue EXCEPT ![c] = Append(@,
                                  Put(onGameStateUpdate(snapshot[c], msg.data),
                                      "delta", msg.data))]
                          ELSE cqueue
             /\ inbox' = [inbox EXCEPT ![c] = RemoveAt(@, i)]
  /\ UNCHANGED <<cstate, snapshot, sync, pend, lastCall, db, crashed, calls, session,
                 started, arrivals>>
  /\ UNCHANGED <<reducerVars, auxVars>>

SyncInit ==
  /\ cstate = [c \in Clients |-> initialGameState]
  /\ cqueue = [c \in Clients |-> <<>>]
  /\ snapshot = [c \in Clients |-> EmptyObject]
  /\ sync = [c \in Clients |-> FALSE]
  /\ inbox = [c \in Clients |-> <<>>]
  /\ pend = [c \in Clients |-> <<>>]
  /\ lastCall = [helper |-> "none"]
  /\ db = [game |-> EmptyObject, players |-> EmptyObject]
  /\ crashed = [c \in Clients |-> FALSE]
  /\ calls = 0
  /\ session = [c \in Clients |-> 0]
  /\ started = 0
  /\ arrivals = 0

InitSync == ReducerInit /\ SyncInit /\ AuxIdle

NextSync ==
  \/ \E c \in Clients : StartSession(c)
  \/ \E c \in Clients : SessionCreated(c)
  \/ \E c \in Clients : Call(c, Helpers, MaxCalls)
  \/ \E c \in Clients : ClientRender(c)
  \/ \E c \in Clients : Persist(c)
  \/ \E c \in Clients : Reject(c)
  \/ \E c \in Clients : Receive(c)
  \/ \E c \in Clients : Deliver(c)

SpecSync == InitSync /\ [][NextSync]_vars

(***************************************************************************)
(* SpecRace: the same clients when the only helper called is                *)
(* useSpecialButton, called up to MaxPresses times.                         *)
(***************************************************************************)
NextRace ==
  \/ \E c \in Clients : StartSession(c)
  \/ \E c \in Clients : SessionCreated(c)
  \/ \E c \in Clients : Call(c, {"useSpecialButton"}, MaxPresses)
  \/ \E c \in Clients : ClientRender(c)
  \/ \E c \in Clients : Persist(c)
  \/ \E c \in Clients : Reject(c)
  \/ \E c \in Clients : Receive(c)
  \/ \E c \in Clients : Deliver(c)

SpecRace == InitSync /\ [][NextRace]_vars

(***************************************************************************)
(* SpecObserver: one GameProvider as an observer.  Besides the local        *)
(* dispatches its channel delivers game-state deltas of peers, each the     *)
(* payload a helper names from some sender's state; onGameStateUpdate       *)
(* merges it over `closure` and dispatches the result as INIT.  The         *)
(* dispatched action carries the delta it was made from in the field        *)
(* `delta`.                                                                 *)
(***************************************************************************)
SenderStates == InitPayloads

DeltaHelpers ==
  {"startGame", "nextQuestion", "updateScore", "startTimer", "stopTimer", "tickTimer"}

Deltas ==
  UNION {UNION {{BroadcastArgs(h, s, x).data : x \in HelperInputs(h)}
                 : s \in SenderStates}
          : h \in DeltaHelpers}

Delivered(cap, gs) == Put(onGameStateUpdate(cap, gs), "delta", gs)

\* the transport calls onGameStateUpdate of the channel the provider holds
DoDeliver ==
  /\ CanDispatch
  /\ Truthy(GameIdOf(state))
  /\ \E gs \in Deltas :
       Dispatch(Delivered(closure, gs))

NextObserver == Next \/ DoInitPartial \/ DoDeliver

SpecObserver == Init /\ [][NextObserver]_vars

(***************************************************************************)
(* Steps of SpecSync as seen from a pair of states.                        *)
(***************************************************************************)
\* this step is a render of client c
Renders(c) == cqueue[c] # <<>> /\ cqueue'[c] = <<>>

\* this step is the render of c that applies one delta dispatched by
\* onGameStateUpdate, and nothing else
RendersDelta(c) ==
  /\ Renders(c)
  /\ Len(cqueue[c]) = 1
  /\ Has(cqueue[c][1], "delta")
  /\ ~crashed'[c]

\* this step is the render of c that applies the dispatches of one call of the
\* helper h with x, and nothing else
RendersCall(c, h, x) ==
  /\ Renders(c)
  /\ cqueue[c] = Marked(HelperActions(h, cstate[c], x), [helper |-> h, x |-> x])
  /\ ~crashed'[c]

\* a delta that carries exactly one player's score, as updateScore broadcasts
IsScoreDelta(gs) ==
  /\ DOMAIN gs = {"players"}
  /\ \E id \in PlayerIds : DOMAIN gs.players = {id} /\ DOMAIN gs.players[id] = {"score"}

ScoreDeltaPlayer(gs) == CHOOSE id \in PlayerIds : id \in DOMAIN gs.players

\* nothing is outstanding at any client
Quiet ==
  \A c \in Clients :
    /\ inbox[c] = <<>>
    /\ cqueue[c] = <<>>
    /\ session[c] = 0
    /\ \A i \in 1..Len(pend[c]) : pend[c][i].stage = "rejected"

(***************************************************************************)
(* SpecSegment: a host stepping through the rounds with actions.nextSegment *)
(* (its second dispatch carries, in `call`, the state the helper read and   *)
(* what it persists and broadcasts), with strikes and questions in between. *)
(***************************************************************************)
MaxSegmentSteps == 7

CanStep == ~threw /\ steps < MaxSegmentSteps /\ Len(queue) < MaxQueue

SegmentNext ==
  /\ CanStep
  /\ queue' = queue \o Marked(HelperActions("nextSegment", state, EmptyObject),
                              [helper |-> "nextSegment", before |-> state,
                               persist |-> HelperPersist("nextSegment", state, EmptyObject),
                               bcast |-> HelperBroadcast("nextSegment", state, EmptyObject)])
  /\ steps' = steps + 1
  /\ UNCHANGED <<state, last, threw, prev, closure, timerRun, heap>>
  /\ UNCHANGED <<syncVars, auxVars>>

SegmentStrike ==
  /\ CanStep
  /\ \E id \in {"playerA", "playerB"} :
       Dispatch([type |-> "ADD_STRIKE", playerId |-> id])

SegmentQuestion ==
  /\ CanStep
  /\ Dispatch([type |-> "NEXT_QUESTION"])

NextSegmentSteps ==
  \/ SegmentNext
  \/ SegmentStrike
  \/ SegmentQuestion
  \/ Render

SpecSegment == Init /\ [][NextSegmentSteps]_vars

(***************************************************************************)
(* C1..C10                                                                 *)
(***************************************************************************)

\* C1: when a client receives a remote delta through onGameStateUpdate, every
\* field of its state that the delta does not name keeps the value it had
\* immediately before the delta was applied.
C1_DeltaKeepsUnnamedFields ==
  [][\A c \in Clients :
       RendersDelta(c) =>
         \A f \in DOMAIN cstate[c] \ DOMAIN cqueue[c][1].delta :
           Has(cstate'[c], f) /\ cstate'[c][f] = cstate[c][f]]_vars

\* C2: INIT with a payload p yields p's value for every field p has and the
\* prior state's value for every field p lacks.
C2_InitMergesPartialPayload ==
  (last.type = "INIT" /\ ~threw) =>
    /\ \A f \in DOMAIN last.payload : Has(state, f) /\ state[f] = last.payload[f]
    /\ \A f \in DOMAIN prev.state \ DOMAIN last.payload :
         Has(state, f) /\ state[f] = prev.state[f]

\* C3: after any sequence of reducer actions the key set of state.players is
\* exactly {host, playerA, playerB}.
C3_PlayerKeysFixed == Has(state, "players") => DOMAIN state.players = PlayerIds

\* C4: applying a delta that carries one player's score changes no other
\* player, changes no other field of that player, and removes no player slot.
C4_ScoreDeltaTouchesOnlyScore ==
  [][\A c \in Clients :
       (RendersDelta(c) /\ IsScoreDelta(cqueue[c][1].delta)
          /\ Has(cstate[c], "players")) =>
         LET who == ScoreDeltaPlayer(cqueue[c][1].delta)
             before == cstate[c].players
             after == cstate'[c].players
         IN /\ DOMAIN after = DOMAIN before
            /\ \A id \in DOMAIN before \ {who} : after[id] = before[id]
            /\ who \in DOMAIN before =>
                 \A k \in DOMAIN before[who] \ {"score"} :
                   Has(after[who], k) /\ after[who][k] = before[who][k]]_vars

\* what the local state must hold for it to agree with what helper h, called
\* with x on state s0, persists and broadcasts
HoldsHelperValues(s, h, x, s0) ==
  LET v == HelperValue(h, s0, x)
      playerHas(k, w) ==
        /\ Has(s, "players") /\ Has(s.players, x.playerId)
        /\ Has(s.players[x.playerId], k) /\ s.players[x.playerId][k] = w
  IN CASE h = "startGame" -> Has(s, "phase") /\ s.phase = "PLAYING"
       [] h = "joinGame" -> playerHas("name", x.playerData.name)
       [] h = "updateHostName" -> Has(s, "hostName") /\ s.hostName = x.name
       [] h = "updateSegmentSettings" ->
            Has(s, "segmentSettings") /\ s.segmentSettings = x.settings
       [] h = "nextQuestion" ->
            Has(s, "currentQuestionIndex") /\ s.currentQuestionIndex = v
       [] h = "nextSegment" ->
            /\ Has(s, "currentSegment") /\ s.currentSegment = v
            /\ Has(s, "currentQuestionIndex") /\ s.currentQuestionIndex = 0
       [] h = "updateScore" -> playerHas("score", v)
       [] h = "addStrike" -> playerHas("strikes", v)
       [] h = "useSpecialButton" -> playerHas("specialButtons", v)
       [] h = "startTimer" ->
            /\ Has(s, "timer") /\ s.timer = x.duration
            /\ Has(s, "isTimerRunning") /\ s.isTimerRunning
       [] h = "stopTimer" ->
            /\ Has(s, "timer") /\ s.timer = 0
            /\ Has(s, "isTimerRunning") /\ ~s.isTimerRunning
       [] h = "tickTimer" -> Has(s, "timer") /\ s.timer = v
       [] OTHER -> TRUE

DispatchingHelpers ==
  {"startGame", "joinGame", "updateHostName", "updateSegmentSettings", "nextQuestion",
   "nextSegment", "updateScore", "addStrike", "useSpecialButton", "startTimer",
   "stopTimer", "tickTimer"}

\* C5: once the dispatch of a helper is applied, the local state holds the
\* values the helper then persists and broadcasts.
C5_LocalStateHoldsSentValues ==
  [][\A c \in Clients : \A h \in DispatchingHelpers : \A x \in HelperInputs(h) :
       (RendersCall(c, h, x) /\ ~HelperThrows(h, cstate[c], x)) =>
         HoldsHelperValues(cstate'[c], h, x, cstate[c])]_vars

ConvergingHelpers ==
  {"nextQuestion", "nextSegment", "updateScore", "addStrike", "useSpecialButton",
   "startTimer", "stopTimer", "tickTimer", "resetGame"}

\* C6: two clients with open channels in equal states, one helper action on
\* one of them and nothing else; once nothing is outstanding any more, both
\* hold equal states.
C6_SingleActionConverges ==
  (/\ calls = 1
   /\ lastCall.helper \in ConvergingHelpers
   /\ ~lastCall.rejected
   /\ lastCall.heard = Clients
   /\ \A d \in Clients : lastCall.all[d] = lastCall.before
   /\ arrivals = 0
   /\ \A d \in Clients : sync[d] /\ ~crashed[d]
   /\ Quiet) =>
    \A c, d \in Clients : cstate[c] = cstate[d]

\* C7: the reducer never throws, and an action naming a player id outside the
\* fixed set leaves the state as it was (one policy for every such action,
\* ADD_PLAYER included).
C7_ReducerTotalOneGhostPolicy ==
  /\ ~threw
  /\ (last \in GhostActions /\ Has(state, "players")) => GhostId \notin DOMAIN state.players

\* C8: timer >= 0 in the state the reducer returns after any action.
C8_TimerNonNegative == Has(state, "timer") => state.timer >= 0

\* C9: in phase COMPLETED no action other than RESET_GAME changes the state
\* (a load of a whole state through INIT is left aside here).
C9_CompletedIsFrozen ==
  (Has(prev.state, "phase") /\ prev.state.phase = "COMPLETED"
     /\ last.type \notin {"RESET_GAME", "INIT"})
    => state = prev.state

\* C10: currentSegment = null implies phase is CONFIG or LOBBY.
C10_NullSegmentOnlyBeforePlay ==
  (Has(state, "currentSegment") /\ state.currentSegment = "null" /\ Has(state, "phase"))
    => state.phase \in {"CONFIG", "LOBBY"}

(***************************************************************************)
(* C11..C20                                                                *)
(***************************************************************************)

\* the reducer completed the action it was given last
Dispatched == last # NoAction /\ ~threw

\* C11: every player's strikes is between 0 and 3 in every state reachable by
\* reducer actions.
C11_StrikesWithinBounds ==
  Has(state, "players") =>
    \A id \in DOMAIN state.players :
      Has(state.players[id], "strikes") =>
        (state.players[id].strikes >= 0 /\ state.players[id].strikes <= 3)

StrikeLoweringTypes ==
  {"NEXT_QUESTION", "NEXT_SEGMENT", "RESET_STRIKES", "RESET_GAME", "INIT",
   "ADD_PLAYER", "UPDATE_PLAYER"}

\* C12: NEXT_QUESTION, NEXT_SEGMENT and RESET_STRIKES leave every player with 0
\* strikes; NEXT_QUESTION adds exactly 1 to currentQuestionIndex; both NEXT_*
\* actions leave timer = 0 and isTimerRunning = false; no action other than
\* these, RESET_GAME, INIT and the player overwrites lowers a strike count.
C12_AdvanceResetsStrikes ==
  Dispatched =>
    /\ last.type \in {"NEXT_QUESTION", "NEXT_SEGMENT", "RESET_STRIKES"} =>
         \A id \in PlayerIds : state.players[id].strikes = 0
    /\ last.type = "NEXT_QUESTION" =>
         state.currentQuestionIndex = prev.state.currentQuestionIndex + 1
    /\ last.type \in {"NEXT_QUESTION", "NEXT_SEGMENT"} =>
         (state.timer = 0 /\ state.isTimerRunning = FALSE)
    /\ last.type \notin StrikeLoweringTypes =>
         \A id \in PlayerIds :
           state.players[id].strikes >= prev.state.players[id].strikes

C12_Witness ==
  /\ Dispatched
  /\ last.type = "NEXT_SEGMENT"
  /\ prev.state.players.playerA.strikes > 0
  /\ prev.state.isTimerRunning
  /\ state.players.playerA.strikes = 0

\* C13: after START_TIMER(n) the state has timer = n and isTimerRunning = true;
\* after k <= n ticks timer = n - k; after n ticks and after every further
\* tick timer = 0; TICK_TIMER never changes isTimerRunning.
C13_TimerCountsDownToZero ==
  /\ timerRun.on =>
       /\ state.isTimerRunning
       /\ timerRun.k = 0 => state.timer = timerRun.n
       /\ timerRun.k <= timerRun.n => state.timer = timerRun.n - timerRun.k
       /\ (timerRun.n >= 0 /\ timerRun.k >= timerRun.n) => state.timer = 0
  /\ (Dispatched /\ last.type = "TICK_TIMER") =>
       state.isTimerRunning = prev.state.isTimerRunning

C13_Witness ==
  /\ timerRun.on
  /\ timerRun.n = MaxDuration
  /\ timerRun.k = MaxDuration + 1
  /\ state.timer = 0

\* C14: in a state with isTimerRunning = false, TICK_TIMER leaves timer
\* unchanged.
C14_StoppedTimerIsFrozen ==
  (Dispatched /\ last.type = "TICK_TIMER" /\ ~prev.state.isTimerRunning) =>
    state.timer = prev.state.timer

\* C16: UPDATE_SCORE(playerId, points) adds points to that player's score and
\* leaves every other field of the player, every other player, scoreHistory
\* and every other state field unchanged.
C16_UpdateScoreAddsPoints ==
  (Dispatched /\ last.type = "UPDATE_SCORE") =>
    LET id == last.playerId
        before == prev.state
    IN /\ DOMAIN state = DOMAIN before
       /\ \A f \in DOMAIN before \ {"players"} : state[f] = before[f]
       /\ DOMAIN state.players = DOMAIN before.players
       /\ \A o \in DOMAIN before.players \ {id} : state.players[o] = before.players[o]
       /\ DOMAIN state.players[id] = DOMAIN before.players[id]
       /\ \A k \in DOMAIN before.players[id] \ {"score"} :
            state.players[id][k] = before.players[id][k]
       /\ state.players[id].score = before.players[id].score + last.points

C16_Witness ==
  /\ Dispatched
  /\ last.type = "UPDATE_SCORE"
  /\ last.playerId = "playerA"
  /\ prev.last.type = "UPDATE_SCORE"
  /\ prev.state.players.playerA.score = -1
  /\ state.players.playerA.score = 1

\* C17: RESET_GAME from any reachable state returns a state equal in every
\* field to the canonical initial state, and the canonical initial state (the
\* content of the module's initialGameState object, parts of which the store's
\* state shares) is never altered by the actions before it.
C17_ResetGameRestoresInitialState ==
  /\ (Dispatched /\ last.type = "RESET_GAME") =>
       /\ DOMAIN state = DOMAIN initialGameState
       /\ \A f \in DOMAIN initialGameState : state[f] = initialGameState[f]
  /\ heap.canonical = initialGameState

\* a reset of a state with a score history and a running timer, whose history
\* was pushed while the state shared its scoreHistory array with the module's
\* object; the state after the reset shares every nested object with it again
C17_Witness ==
  /\ Dispatched
  /\ last.type = "RESET_GAME"
  /\ Has(prev.state, "scoreHistory") /\ prev.state.scoreHistory # <<>>
  /\ Has(prev.state, "isTimerRunning") /\ prev.state.isTimerRunning
  /\ state = initialGameState
  /\ heap.canonical = initialGameState
  /\ heap.aliased = ObjectKeys

IsPrefix(p, q) == Len(p) <= Len(q) /\ \A i \in 1..Len(p) : p[i] = q[i]

\* the last dispatch applied a remote delta
AppliedDelta(a) == a.type = "INIT" /\ Has(a, "delta")

\* the last dispatch loaded a state given as INIT payload
LoadedState(a) == a.type = "INIT" /\ ~Has(a, "delta")

\* C15: across reducer actions and applied remote deltas other than RESET_GAME
\* and a state load, the scoreHistory before a step is a prefix of the one
\* after it, and only PUSH_SCORE_EVENT lengthens it, by the one event appended.
C15_ScoreHistoryAppendOnly ==
  (Dispatched /\ last.type # "RESET_GAME" /\ ~LoadedState(last)
     /\ Has(prev.state, "scoreHistory")) =>
    /\ Has(state, "scoreHistory")
    /\ IsPrefix(prev.state.scoreHistory, state.scoreHistory)
    /\ state.scoreHistory # prev.state.scoreHistory =>
         (/\ last.type = "PUSH_SCORE_EVENT"
          /\ state.scoreHistory = Append(prev.state.scoreHistory, last.event))

\* the last two dispatches applied the same delta, or loaded the same payload
SameInitTwice ==
  /\ steps >= 2
  /\ last.type = "INIT"
  /\ prev.last.type = "INIT"
  /\ IF Has(last, "delta")
     THEN Has(prev.last, "delta") /\ prev.last.delta = last.delta
     ELSE ~Has(prev.last, "delta") /\ prev.last.payload = last.payload

\* C18: applying the same INIT partial payload, or delivering the same delta,
\* twice in a row yields the state that applying it once yields.
C18_DeltaApplicationIdempotent ==
  (Dispatched /\ SameInitTwice) => state = prev.state

C18_Witness ==
  /\ Dispatched
  /\ SameInitTwice
  /\ AppliedDelta(last)
  /\ Has(last.delta, "timer") /\ last.delta.timer = 1
  /\ state = prev.state

\* C19: after two remote deltas applied one after the other, a field named by
\* the second holds the second's value and a field named only by the first
\* holds the first's value.
C19_LastWriteWinsPerField ==
  (Dispatched /\ AppliedDelta(last) /\ AppliedDelta(prev.last)) =>
    LET first == prev.last.delta
        second == last.delta
    IN /\ \A f \in DOMAIN second : Has(state, f) /\ state[f] = second[f]
       /\ \A f \in DOMAIN first \ DOMAIN second : Has(state, f) /\ state[f] = first[f]

\* C20: when a persistence or broadcast call of a helper fails, the local state
\* stays the reducer's result of the dispatched action and the helper's
\* promise does not reject.
C20_FailureCaughtAtBoundary ==
  \A c \in Clients : \A i \in 1..Len(pend[c]) : pend[c][i].stage # "rejected"

(***************************************************************************)
(* C21..C30                                                                *)
(***************************************************************************)

\* the row r has a value to take for column c (`?? undefined` makes a null
\* video_room_url count as none)
Supplies(r, c) == Has(r, c) /\ ~(c = "video_room_url" /\ r[c] = "null")

\* C21: after a load, each field whose column the row lacks has the value it
\* has in the canonical initial state, and each field whose column the row
\* has holds the row's value.
C21_AbsentColumnsTakeDefaults ==
  (Dispatched /\ Has(last, "record")) =>
    \A f \in DOMAIN ColumnOf :
      IF Supplies(last.record, ColumnOf[f])
      THEN Has(state, f) /\ state[f] = last.record[ColumnOf[f]]
      ELSE IF Has(initialGameState, f)
           THEN Has(state, f) /\ state[f] = initialGameState[f]
           ELSE ~Has(state, f)

\* C22: every load yields the default players map with exactly the three
\* slots, whatever the row holds and whatever reducer actions did to the
\* players of an earlier load.
C22_LoadYieldsDefaultPlayers ==
  (Dispatched /\ Has(last, "record")) =>
    (Has(state, "players") /\ state.players = defaultPlayers
       /\ DOMAIN state.players = PlayerIds)

C22_Witness ==
  /\ Dispatched
  /\ Has(last, "record")
  /\ Has(last.record, "players")
  /\ prev.last.type = "UPDATE_SCORE"
  /\ Has(prev.state, "players")
  /\ prev.state.players # defaultPlayers
  /\ state.players = defaultPlayers

\* C28: for fixed state and action the reducer returns the same state: two
\* runs of the reducer from equal states on the same actions, the second in
\* another instance of the module and at a later time, are in equal states
\* after every step.
C28_ReducerDeterministic ==
  heap.twin.state = state

\* both runs have reduced three actions, in renders at different times, the
\* last one pushing a second, equal score event
C28_Witness ==
  /\ Dispatched
  /\ steps = MaxSteps
  /\ heap.now >= 2
  /\ last.type = "PUSH_SCORE_EVENT"
  /\ Len(state.scoreHistory) = 2
  /\ state.scoreHistory[1] = state.scoreHistory[2]
  /\ heap.twin.state = state

\* C29: a special button that is unavailable stays unavailable under every
\* reducer action other than RESET_GAME and a state load.
C29_UsedButtonStaysUsed ==
  (Dispatched /\ last.type \notin {"RESET_GAME", "INIT"}) =>
    \A id \in PlayerIds : \A b \in ButtonKinds :
      prev.state.players[id].specialButtons[b] = FALSE =>
        state.players[id].specialButtons[b] = FALSE

\* C30: COMPLETE_GAME sets phase = COMPLETED and isTimerRunning = false and
\* leaves every other field unchanged.
C30_CompleteGameFrame ==
  (Dispatched /\ last.type = "COMPLETE_GAME") =>
    /\ DOMAIN state = DOMAIN prev.state \cup {"phase", "isTimerRunning"}
    /\ state.phase = "COMPLETED"
    /\ state.isTimerRunning = FALSE
    /\ \A f \in DOMAIN prev.state \ {"phase", "isTimerRunning"} :
         state[f] = prev.state[f]

C30_Witness ==
  /\ Dispatched
  /\ last.type = "COMPLETE_GAME"
  /\ Has(prev.state, "timer") /\ prev.state.timer > 0
  /\ Has(prev.state, "isTimerRunning") /\ prev.state.isTimerRunning
  /\ Has(prev.state, "phase") /\ prev.state.phase = "PLAYING"
  /\ state.timer = prev.state.timer

\* the room service answered the call that settled last with a url / without
\* an error
ServiceGaveUrl ==
  video.done.resp.kind = "json" /\ FieldOr(video.done.resp.body, "url", "") # ""

ServiceDeleted == video.done.resp.kind = "json" /\ ~Has(video.done.resp.body, "error")

\* C23: createVideoRoom and endVideoRoom always resolve; createVideoRoom
\* resolves to {success: true, roomUrl} exactly when the service returned a
\* url and the call updated the row, and otherwise to {success: false, error}
\* having left the row untouched; endVideoRoom resolves to success only when
\* the deletion and the row update succeeded.
C23_VideoFailuresAreResults ==
  /\ video.done.op = "createVideoRoom" =>
       /\ video.done.out.settled = "resolved"
       /\ video.done.out.value.success = (ServiceGaveUrl /\ video.done.wrote)
       /\ video.done.out.value.success =>
            video.done.out.value.roomUrl = video.done.resp.body.url
       /\ ~video.done.out.value.success =>
            /\ Has(video.done.out.value, "error")
            /\ ~video.done.wrote
  /\ video.done.op = "endVideoRoom" =>
       /\ video.done.out.settled = "resolved"
       /\ video.done.out.value.success =>
            /\ ServiceDeleted
            /\ video.done.wrote

\* C24: generateDailyToken always resolves: to the token when the service
\* returned a non-empty one, and to null on a network error, an unparsable
\* response and a response without a token.
C24_TokenOrNull ==
  video.done.op = "generateDailyToken" =>
    /\ video.done.out.settled = "resolved"
    /\ video.done.out.value =
         (IF video.done.resp.kind = "json" /\ Has(video.done.resp.body, "token")
             /\ video.done.resp.body.token # ""
          THEN video.done.resp.body.token
          ELSE "null")
    /\ ~video.done.wrote

C24_Witness ==
  /\ video.done.op = "generateDailyToken"
  /\ video.done.resp.kind = "network"
  /\ video.done.out.settled = "resolved"
  /\ video.done.out.value = "null"
  /\ video.row.video_room_created

\* C27: at most one GameSync instance is live; a live instance is the one in
\* the ref of a mounted provider and belongs to the current gameId, so every
\* instance of an earlier gameId or of an unmounted provider has been
\* disconnected, also when its connect() had not completed; and no dispatch
\* came from an instance or subscription after its cleanup.
C27_OneLiveInstance ==
  /\ Cardinality({i \in DOMAIN provider.runs : Live(provider.runs[i])}) <= 1
  /\ \A i \in DOMAIN provider.runs :
       /\ Live(provider.runs[i]) =>
            /\ provider.mounted
            /\ provider.ref = i
            /\ provider.runs[i].gameId = provider.gameId
       /\ provider.runs[i].attached =>
            /\ provider.mounted
            /\ i = Len(provider.runs)
            /\ provider.runs[i].gameId = provider.gameId
       /\ provider.runs[i].status # "none"
  /\ ~provider.stale

C27_Witness ==
  /\ Len(provider.runs) = 2
  /\ provider.runs[1].status = "disconnected"
  /\ provider.cutShort
  /\ provider.runs[2].status = "connected"
  /\ provider.events = MaxEvents
  /\ provider.ref = 2

\* a host client that is in the lobby and announced itself as connected
HostPresent(r) ==
  /\ lobby.c[r].mounted
  /\ lobby.c[r].participant.type \in HostTypes
  /\ lobby.c[r].participant.isConnected

\* C25: the host-connected signal is true whenever at least one of the
\* host-pc and host-mobile clients is present and connected, whatever the
\* other host client did (left, reloaded, re-ran its effect).
C25_HostSignalWhileAnyHost ==
  (\E r \in LobbyRoles : HostPresent(r)) => lobby.hostConnected

\* C26: a participant whose tab stayed hidden for the whole 30 s window is
\* marked disconnected once the window has elapsed.
C26_HiddenBeyondWindowDisconnected ==
  \A r \in LobbyRoles :
    lobby.c[r].elapsed => ~lobby.c[r].participant.isConnected

(***************************************************************************)
(* C31..C40                                                                *)
(***************************************************************************)

SegmentResetFields == {"currentSegment", "currentQuestionIndex", "timer", "isTimerRunning"}

\* C31: SET_CURRENT_SEGMENT(segment) sets currentSegment to the given value,
\* currentQuestionIndex and timer to 0 and isTimerRunning to false, and leaves
\* every other field (phase, players with their strikes and scores,
\* scoreHistory) unchanged.
C31_SetCurrentSegmentFrame ==
  (Dispatched /\ last.type = "SET_CURRENT_SEGMENT") =>
    /\ DOMAIN state = DOMAIN prev.state \cup SegmentResetFields
    /\ state.currentSegment = last.segment
    /\ state.currentQuestionIndex = 0
    /\ state.timer = 0
    /\ state.isTimerRunning = FALSE
    /\ \A f \in DOMAIN prev.state \ SegmentResetFields : state[f] = prev.state[f]

C31_Witness ==
  /\ Dispatched
  /\ last.type = "SET_CURRENT_SEGMENT"
  /\ last.segment = "REMO"
  /\ state.currentSegment = "REMO"
  /\ Has(prev.state, "players")
  /\ \E id \in PlayerIds : prev.state.players[id].strikes > 0
  /\ state.players = prev.state.players

\* C32: SET_PHASE(phase) sets phase to the given value; CONFIG also sets
\* currentSegment to null, every other phase leaves currentSegment as it was;
\* no other field changes.
C32_SetPhaseFrame ==
  (Dispatched /\ last.type = "SET_PHASE") =>
    /\ state.phase = last.phase
    /\ IF last.phase = "CONFIG"
       THEN /\ DOMAIN state = DOMAIN prev.state \cup {"phase", "currentSegment"}
            /\ state.currentSegment = "null"
       ELSE /\ DOMAIN state = DOMAIN prev.state \cup {"phase"}
            /\ Has(prev.state, "currentSegment") =>
                 state.currentSegment = prev.state.currentSegment
    /\ \A f \in DOMAIN prev.state \ {"phase", "currentSegment"} :
         state[f] = prev.state[f]

C32_Witness ==
  /\ Dispatched
  /\ last.type = "SET_PHASE"
  /\ last.phase = "PLAYING"
  /\ Has(prev.state, "currentSegment")
  /\ prev.state.currentSegment = "WSHA"
  /\ state.currentSegment = "WSHA"
  /\ state.phase = "PLAYING"

\* the last helper call was tickTimer, made while every client had its
\* channel open
TickSent ==
  /\ lastCall.helper = "tickTimer"
  /\ lastCall.heard = Clients

\* C33: the timer value broadcast by tickTimer equals the caller's timer after
\* its TICK_TIMER and is not negative, and no client's timer is below 0.
C33_TickBroadcastIsLocalTimer ==
  /\ TickSent =>
       /\ lastCall.bcast.kind = "gameState"
       /\ lastCall.bcast.data.timer = gameReducer(lastCall.before, [type |-> "TICK_TIMER"]).timer
       /\ lastCall.bcast.data.timer >= 0
  /\ \A c \in Clients : Has(cstate[c], "timer") => cstate[c].timer >= 0

\* the two helper calls made were useSpecialButton on different clients, for
\* two different buttons of the same player, both made while every client had
\* its channel open
ButtonRace ==
  /\ lastCall.helper = "useSpecialButton"
  /\ ~lastCall.rejected
  /\ lastCall.heard = Clients
  /\ lastCall.earlier.helper = "useSpecialButton"
  /\ lastCall.earlier.went
  /\ lastCall.earlier.heard = Clients
  /\ lastCall.earlier.client # lastCall.client
  /\ lastCall.earlier.x.playerId = lastCall.x.playerId
  /\ lastCall.earlier.x.buttonType # lastCall.x.buttonType

\* every persistence call went through, and nothing is outstanding
AllDelivered ==
  /\ Quiet
  /\ \A c \in Clients : \A i \in 1..Len(pend[c]) : pend[c][i].ended # "database"

\* the button b of player id can be used in the state s
ButtonAvailable(s, id, b) ==
  /\ Has(s, "players")
  /\ Has(s.players, id)
  /\ Has(s.players[id], "specialButtons")
  /\ Has(s.players[id].specialButtons, b)
  /\ s.players[id].specialButtons[b] = TRUE

\* C34: when two clients of a session have each called useSpecialButton for a
\* different button of the same player and both deltas were delivered, no
\* client holds either button as available.
C34_ButtonsOneShotAcrossClients ==
  (ButtonRace /\ AllDelivered /\ (\A c \in Clients : sync[c] /\ ~crashed[c])) =>
    \A c \in Clients : \A b \in ButtonKinds :
      ~ButtonAvailable(cstate[c], lastCall.x.playerId, b)

\* the fixed order of the rounds, as a table from a segment to the one after
SuccessorOf ==
  [null |-> "WSHA", WSHA |-> "AUCT", AUCT |-> "BELL", BELL |-> "SING",
   SING |-> "REMO", REMO |-> "null"]

\* C35: a call of nextSegment moves currentSegment one position in the order
\* WSHA, AUCT, BELL, SING, REMO (null to WSHA, REMO to null), sets
\* currentQuestionIndex and every player's strikes to 0, and persists and
\* broadcasts the segment the local state now holds.
C35_NextSegmentAdvancesOne ==
  (Dispatched /\ Has(last, "call") /\ last.call.helper = "nextSegment") =>
    /\ state.currentSegment = SuccessorOf[last.call.before.currentSegment]
    /\ state.currentQuestionIndex = 0
    /\ \A id \in DOMAIN state.players : state.players[id].strikes = 0
    /\ last.call.persist.op = "updateGame"
    /\ last.call.persist.data.current_segment = state.currentSegment
    /\ last.call.persist.data.current_question_index = state.currentQuestionIndex
    /\ last.call.bcast.kind = "gameState"
    /\ last.call.bcast.data.current_segment = state.currentSegment
    /\ last.call.bcast.data.current_question_index = state.currentQuestionIndex

\* C37: a lobby client has at most one createVideoRoom request outstanding,
\* and isCreatingRoom is true exactly while one is.
C37_OneCreateRequestInFlight ==
  /\ room.inflight <= 1
  /\ room.creating <=> room.inflight > 0

\* the host-PC effect is due to run and will issue a request
HostWillRequest == HostDeps(room) # room.seenHost /\ HostWants(room)

\* C38: when every createVideoRoom attempt of the host-PC lobby has failed,
\* the automatic creation stops: after MaxRequests automatic requests that
\* all failed, the effect does not go on to issue another.
C38_AutoCreationStops ==
  (/\ room.variant = "Lobby.tsx"
   /\ room.type = "host-pc"
   /\ ~room.created
   /\ room.inflight = 0
   /\ room.manual = 0
   /\ room.ends = 0
   /\ room.auto = MaxRequests) => ~HostWillRequest

LiveObjects == {i \in DOMAIN frame.objects : frame.objects[i] = "live"}

\* every run of setup() returned at its first line: the frame never reaches
\* the import, never creates a call object and never leaves the loading box
SetupNeverImports ==
  /\ \A i \in DOMAIN frame.setups : frame.setups[i] \in {"skipped", "returned"}
  /\ frame.objects = <<>>
  /\ frame.ref = 0
  /\ ~frame.container

\* C39: the frame has at most one live Daily call object, and once the frame
\* is unmounted every call object its setup created has been destroyed,
\* whatever was pending when the unmount or the change of participantType
\* happened.
C39_CallObjectsReleased ==
  /\ Cardinality(LiveObjects) <= 1
  /\ frame.mounted = "gone" => LiveObjects = {}

\* the frame was unmounted after its participantType had changed, with a run
\* of setup() not yet settled at the unmount, and no call object is live
C39_Witness ==
  /\ frame.mounted = "gone"
  /\ Len(frame.setups) >= 2
  /\ frame.setups[1] = "returned"
  /\ frame.setups[Len(frame.setups)] = "skipped"
  /\ LiveObjects = {}

SlotConnected(id) ==
  /\ Has(state.players[id], "isConnected")
  /\ state.players[id].isConnected = TRUE

\* C40: the Start Game control is enabled only when playerA or playerB is
\* connected and the video room has been created, and the connected-player
\* count shown out of 2 never exceeds 2.
C40_StartNeedsPlayerAndRoom ==
  Dispatched =>
    /\ ~StartDisabled(state) =>
         /\ SlotConnected("playerA") \/ SlotConnected("playerB")
         /\ videoRoomCreated(state)
    /\ connectedPlayers(state) <= 2

RoutineDue ==
  /\ content.mounted = "yes"
  /\ content.timer = "pending"

RoutineExcused ==
  \/ content.mounted # "yes"
  \/ content.url
  \/ content.loaded # content.gameId

\* C36: once a mounted host or controller VideoContent with the game state of
\* its gameId loaded and no room url has scheduled the check-and-create
\* routine, the routine eventually runs (unless the content is unmounted, the
\* gameId changes or a room url arrives first).
C36_ScheduledRoutineRuns ==
  \A n \in 0..MaxGames :
    (RoutineDue /\ content.runs = n) ~> (content.runs > n \/ RoutineExcused)
====
